---- MODULE Spec2Model ----
(***************************************************************************)
(* Model of the gemini-vqa HTTP server: the analyze_image request handler   *)
(* (VQAMCPServer), its validator, GeminiService.analyzeImage and the        *)
(* retry executor GeminiService.withRetry; and of the MCP stdio server       *)
(* (src/index.ts): the tools analyze_image_file and analyze_website, the     *)
(* file system and the browser they use.                                     *)
(* The configuration (getConfig), the server's start() and stop() and the    *)
(* signal handlers of the CLI's start command have specifications of their   *)
(* own (SpecConfig, SpecStart, SpecLifecycle).                               *)
(*                                                                          *)
(* JavaScript strings that the code inspects character by character         *)
(* (question, image, context) are sequences of one-character strings.       *)
(* Messages the code only builds and passes on are TLA+ strings.            *)
(* An optional JavaScript value is a record [has, val]: has = FALSE is      *)
(* undefined.  The request body is held in the state in packed form: a       *)
(* string is [head, fill, n], standing for head followed by n copies of       *)
(* fill; Body unpacks it into what the code reads.                           *)
(***************************************************************************)
EXTENDS Integers, Sequences, FiniteSets, TLC

VARIABLES
    variant,        \* which server source handles the request: "current" | "legacy"
    config,         \* GeminiServiceConfig: [maxRetries, timeout]
    input,          \* req.body, packed: [question, image, context, maxTokens]
    pc,             \* position of the request's async chain
    delay,          \* withRetry local `delay`
    attempts,       \* withRetry local `attempts`
    history,        \* outcome of every operation invocation so far, in order
    lastError,      \* the error caught by the latest withRetry catch
    sleepMs,        \* argument of the pending setTimeout (0: no timer pending)
    sleepCount,     \* number of backoff sleeps started
    invocations,    \* number of times the provider call (operation) was invoked
    retryResult,    \* how withRetry ended: [kind, call, error]
    validation,     \* the handler's imgValidation, quesValidation, ctxValidation
    analyzeCalls,   \* number of GeminiService.analyzeImage invocations
    modelRequest,   \* what analyzeImage handed to the provider
    response,       \* the HTTP response: [sent, status, body]
    call,           \* the MCP tools/call request: [name, question, imagePath, url,
                    \* waitFor, viewportWidth, viewportHeight, fullPage]
    toolPc,         \* position of the tool call's async chain
    disk,           \* what the file system holds at imagePath: [exists, read]
    browser,        \* puppeteer: [launched, open, closeCalls]
    shot,           \* takeWebsiteScreenshot: [error, capture] and the arguments
                    \* its puppeteer calls were made with
    events,         \* the file, browser and provider operations done so far, in order
    toolRequest,    \* what the tool handed to the provider
    toolResult,     \* how the tool call ended: [kind, isError, text]
    shots,          \* concurrent takeWebsiteScreenshot calls: call -> [pc, browser, failed]
    processes,      \* the browsers launched so far: [open, launchedBy, closedBy, closeCalls]
    service,        \* a GeminiService shared by requests: [config, retryConfig]
    reqs,           \* concurrent requests on it: request -> [input, pc, verdicts, frame, ...]
    frames,         \* the locals of the withRetry calls: frame -> [delay, attempts]
    env,            \* process.env: [GEMINI_API_KEY, GEMINI_MAX_RETRIES]
    server          \* the VQAMCPServer object and its start(): [constructed, pc, ...]

\* the state of one request to the HTTP server
httpVars == <<variant, config, input, pc, delay, attempts, history, lastError,
              sleepMs, sleepCount, invocations, retryResult, validation,
              analyzeCalls, modelRequest, response>>

\* the state of the MCP stdio server
mcpVars == <<call, toolPc, disk, browser, shot, events, toolRequest, toolResult>>

\* the state of concurrent screenshots, of concurrent requests, of the startup
poolVars == <<shots, processes>>
sharedVars == <<service, reqs, frames>>
startVars == <<env, server>>

vars == <<variant, config, input, pc, delay, attempts, history, lastError,
          sleepMs, sleepCount, invocations, retryResult, validation,
          analyzeCalls, modelRequest, response,
          call, toolPc, disk, browser, shot, events, toolRequest, toolResult,
          shots, processes, service, reqs, frames, env, server>>

----------------------------------------------------------------------------
(* Bounds of the model *)

\* GEMINI_MAX_RETRIES is any integer; the model tries -1 .. MaxRetriesBound
MaxRetriesBound == 6

\* the number of analyze_website calls in flight at the same time
MaxCalls == 2

\* the number of analyze_image requests in flight at the same time
MaxRequests == 2

\* the number of times a request is put through the validator
MaxValidations == 2

\* the number of start() calls on a VQAMCPServer
MaxStarts == 2

\* the number of stop() calls on a VQAMCPServer
MaxStops == 2

(* Program constants *)

InitialDelayMs == 1000
MaxDelayMs == 10000
BackoffMultiplier == 2
JitterRange == 200
DefaultTimeout == 30000
DefaultMaxRetries == 3
MaxQuestionLen == 1000
MaxContextLen == 2000
SchemaMinTokens == 1
SchemaMaxTokens == 2048

----------------------------------------------------------------------------
(* Optional values and strings *)

Some(v) == [has |-> TRUE, val |-> v]
NoString == [has |-> FALSE, val |-> <<>>]
NoNumber == [has |-> FALSE, val |-> 0]
NoText == [has |-> FALSE, val |-> ""]

\* JavaScript truthiness of an optional string: undefined and "" are falsy
Truthy(s) == s.has /\ s.val # <<>>

Min(a, b) == IF a <= b THEN a ELSE b

Rep(c, n) == [i \in 1..n |-> c]

\* packed strings
Packed(head, fill, n) == [head |-> head, fill |-> fill, n |-> n]
Plain(s) == Packed(s, "", 0)
Text(p) == p.head \o Rep(p.fill, p.n)
NoPacked == [has |-> FALSE, val |-> Plain(<<>>)]
Str(o) == IF o.has THEN Some(Text(o.val)) ELSE NoString

\* req.body as the handlers read it
Body(in) ==
    [question |-> Str(in.question), image |-> Str(in.image),
     context |-> Str(in.context), maxTokens |-> in.maxTokens]

WhiteSpace == {" ", "\t", "\n"}

\* String.prototype.trim: drop leading and trailing white space
Trim(s) ==
    IF \A i \in 1..Len(s) : s[i] \in WhiteSpace THEN <<>>
    ELSE LET lo == CHOOSE i \in 1..Len(s) :
                       /\ s[i] \notin WhiteSpace
                       /\ \A j \in 1..(i - 1) : s[j] \in WhiteSpace
             hi == CHOOSE i \in 1..Len(s) :
                       /\ s[i] \notin WhiteSpace
                       /\ \A j \in (i + 1)..Len(s) : s[j] \in WhiteSpace
         IN  SubSeq(s, lo, hi)

StartsWith(s, p) == Len(p) <= Len(s) /\ SubSeq(s, 1, Len(p)) = p

DataUrlPrefix(type) ==
    <<"d","a","t","a",":","i","m","a","g","e","/">> \o type
        \o <<";","b","a","s","e","6","4",",">>

PNG == <<"p","n","g">>
JPEG == <<"j","p","e","g">>
JPG == <<"j","p","g">>
GIF == <<"g","i","f">>

\* the alternation (png|jpeg|jpg) of the data-URL regular expressions
ServerImageTypes == {PNG, JPEG, JPG}

\* /^data:image\/(png|jpeg|jpg);base64,/ matches s
MatchesDataUrl(s) == \E t \in ServerImageTypes : StartsWith(s, DataUrlPrefix(t))

\* s.replace(/^data:image\/(png|jpeg|jpg);base64,/, "")
StripDataUrl(s) ==
    IF MatchesDataUrl(s)
    THEN LET t == CHOOSE t \in ServerImageTypes : StartsWith(s, DataUrlPrefix(t))
         IN  SubSeq(s, Len(DataUrlPrefix(t)) + 1, Len(s))
    ELSE s

Base64Alphabet ==
    {"A","B","C","D","E","F","G","H","I","J","K","L","M",
     "N","O","P","Q","R","S","T","U","V","W","X","Y","Z",
     "a","b","c","d","e","f","g","h","i","j","k","l","m",
     "n","o","p","q","r","s","t","u","v","w","x","y","z",
     "0","1","2","3","4","5","6","7","8","9","+","/"}

\* /^[A-Za-z0-9+/]+[=]{0,2}$/ matches s
MatchesBase64(s) ==
    \E k \in 0..2 :
        /\ Len(s) - k >= 1
        /\ \A i \in 1..(Len(s) - k) : s[i] \in Base64Alphabet
        /\ \A i \in (Len(s) - k + 1)..Len(s) : s[i] = "="

----------------------------------------------------------------------------
(* Validator (VQAMCPServer.createValidator) *)

\* mutant of validateImage: a regular expression with the g flag, whose test
\* depends on the tests made before it
validateImageGlobalFlag(base64Image) ==
    LET tests == IF reqs = <<>> THEN 0
                 ELSE Len(reqs[1].verdicts) + Len(reqs[Len(reqs)].verdicts)
    IN  IF ~Truthy(base64Image) THEN <<"Image is required">>
        ELSE IF tests % 2 = 1 \/ ~MatchesDataUrl(base64Image.val)
             THEN <<"Invalid image format">>
        ELSE <<>>

validateImage(base64Image) ==
    IF ~Truthy(base64Image) THEN <<"Image is required">>
    ELSE IF ~MatchesDataUrl(base64Image.val) THEN <<"Invalid image format">>
    ELSE <<>>

\* mutant of validateQuestion: the length limit off by one
validateQuestionOffByOne(question) ==
    IF ~Truthy(question) \/ Len(Trim(question.val)) = 0
        THEN <<"Question is required">>
    ELSE IF Len(question.val) >= MaxQuestionLen THEN <<"Question too long">>
    ELSE <<>>

validateQuestion(question) ==
    IF ~Truthy(question) \/ Len(Trim(question.val)) = 0
        THEN <<"Question is required">>
    ELSE IF Len(question.val) > MaxQuestionLen THEN <<"Question too long">>
    ELSE <<>>

validateContext(context) ==
    IF Truthy(context) /\ Len(context.val) > MaxContextLen
        THEN <<"Context too long">>
    ELSE <<>>

\* the handler's imgValidation, quesValidation and ctxValidation (the errors
\* of each; DEFAULT_VALIDATION has none)
Validate(in) ==
    [done |-> TRUE,
     image |-> validateImage(in.image),
     question |-> validateQuestion(in.question),
     context |-> IF Truthy(in.context) THEN validateContext(in.context)
                 ELSE <<>>]

\* the handler's validationErrors array
ValidationErrors(v) == v.image \o v.question \o v.context

\* Array.prototype.join('; ')
RECURSIVE Join(_)
Join(errs) ==
    IF errs = <<>> THEN ""
    ELSE IF Len(errs) = 1 THEN errs[1]
    ELSE errs[1] \o "; " \o Join(Tail(errs))

----------------------------------------------------------------------------
(* Errors *)

NoCause == [has |-> FALSE, val |-> [name |-> "none"]]

\* new Error(message)
PlainError(message) ==
    [name |-> "Error", message |-> message, cause |-> NoCause, details |-> NoText]

\* new GeminiServiceError(message, cause, details):
\*   this.details = details || cause?.message
GeminiServiceError(message, cause, details) ==
    [name |-> "GeminiServiceError", message |-> message, cause |-> cause,
     details |-> IF details.has /\ details.val # "" THEN details
                 ELSE IF cause.has THEN Some(cause.val.message)
                 ELSE NoText]

NoError == [name |-> "none"]

----------------------------------------------------------------------------
(* GeminiService *)

ModelName == "gemini-2.5-pro-preview-06-05"

\* mutant of processImageData: the payload not tested
processImageDataUnchecked(base64Image) ==
    [ok |-> TRUE,
     inlineData |-> [data |-> IF base64Image.has
                              THEN StripDataUrl(base64Image.val) ELSE <<>>,
                     mimeType |-> "image/jpeg"]]

\* processImageData: the inline image part, or the error it throws
processImageData(base64Image) ==
    IF ~base64Image.has
    THEN [ok |-> FALSE,
          error |-> GeminiServiceError("Failed to process image data",
                       Some(PlainError("Cannot read properties of undefined")),
                       NoText)]
    ELSE LET imageData == StripDataUrl(base64Image.val)
         IN  IF ~MatchesBase64(imageData)
             THEN [ok |-> FALSE,
                   error |-> GeminiServiceError("Failed to process image data",
                                Some(PlainError("Invalid base64 image data")),
                                NoText)]
             ELSE [ok |-> TRUE,
                   inlineData |-> [data |-> imageData, mimeType |-> "image/jpeg"]]

\* mutants of TimedOut: the boundary counted as a timeout; no timeout at all
TimedOutAtLimit(duration, timeout) == duration >= timeout
TimedOutNever(duration, timeout) == FALSE

\* withRetry: duration > this.config.timeout
TimedOut(duration, timeout) == duration > timeout

TimeoutError(duration) ==
    GeminiServiceError("Operation timed out after " \o ToString(duration) \o "ms",
                       NoCause, NoText)

\* mutant of RetryExhausted: `===` for `>=`
RetryExhaustedAtEquality(att, maxRetries) == att = maxRetries

\* mutant of RetryExhausted: the test on the attempts left out
RetryExhaustedNever(att, maxRetries) == FALSE

\* mutants of RetryExhausted: one attempt too few; one attempt too many
RetryExhaustedEarly(att, maxRetries) == att >= maxRetries - 1
RetryExhaustedLate(att, maxRetries) == att > maxRetries

\* withRetry: attempts >= this.retryConfig.maxRetries
RetryExhausted(att, maxRetries) == att >= maxRetries

MaxRetryError(cause) ==
    GeminiServiceError("Max retry attempts reached", Some(cause), NoText)

\* withRetry: setTimeout(resolve, delay + jitter)
SleepTime(d, jitter) == d + jitter

\* mutant of SleepReached: the backoff sleep placed before the test
SleepReachedAlways(exhausted) == TRUE

\* withRetry's catch: the throw of the terminal error comes before the
\* backoff sleep, which only a failure that leaves attempts runs into
SleepReached(exhausted) == ~exhausted

\* mutant of NextDelay: the cap applied as a remainder
NextDelayWrapped(d) == (d * BackoffMultiplier) % MaxDelayMs

\* mutant of NextDelay: the cap forgotten
NextDelayUncapped(d) == d * BackoffMultiplier

\* withRetry: delay = Math.min(delay * backoffMultiplier, maxDelayMs)
NextDelay(d) == Min(d * BackoffMultiplier, MaxDelayMs)

\* analyzeImage's catch: throw new GeminiServiceError("Failed to analyze image", error)
AnalyzeFailure(cause) ==
    GeminiServiceError("Failed to analyze image", Some(cause), NoText)

\* mutant of AnalyzeResult: the confidence taken for certain
AnalyzeResultCertain(text) ==
    [kind |-> "result", answer |-> text, confidence |-> "1.0",
     modelUsed |-> ModelName]

\* analyzeImage's return value
AnalyzeResult(text) ==
    [kind |-> "result", answer |-> text, confidence |-> "0.9",
     modelUsed |-> ModelName]

----------------------------------------------------------------------------
(* The error middleware and the responses *)

NoResponse == [sent |-> 0, status |-> 0, body |-> [kind |-> "none"]]

\* mutant of Send: res.json(body) with the status left at its default
SendDefaultStatus(res, status, body) ==
    [sent |-> res.sent + 1, status |-> 200, body |-> body]

\* res.status(status).json(body) on a response that has sent `sent` bodies
Send(res, status, body) ==
    [sent |-> res.sent + 1, status |-> status, body |-> body]

\* the 400 envelope of the analyze_image handler
ValidationEnvelope(errs) ==
    [kind |-> "error", error |-> "Validation failed", code |-> "VALIDATION_ERROR",
     details |-> Some(Join(errs))]

\* setupErrorHandling: the envelope built from the error passed to next()
ErrorEnvelope(err) ==
    [kind |-> "error", error |-> "Internal server error",
     code |-> IF err.name = "GeminiServiceError" THEN "GEMINI_ERROR"
              ELSE "SERVER_ERROR",
     details |-> IF err.name = "GeminiServiceError" THEN err.details
                 ELSE Some(err.message)]

\* mutant of ValidationFails: a single violation let through
ValidationFailsSeveral(errs) == Len(errs) > 1

\* the handler's test `validationErrors.length > 0`
ValidationFails(errs) == Len(errs) > 0

----------------------------------------------------------------------------
(* Inputs *)

QUJD == <<"Q","U","J","D">>
Padded == <<"Q","Q","=","=">>
NotBase64 == <<"n","o","t","-","b","a","s","e","6","4","!","!">>

Questions ==
    {Plain(<<>>), Plain(<<" ">>), Plain(<<"a">>), Plain(<<" ","a">>),
     Packed(<<>>, "a", MaxQuestionLen), Packed(<<>>, "a", MaxQuestionLen + 1),
     Packed(<<>>, " ", MaxQuestionLen + 1)}

Images ==
    {Plain(s) : s \in
        {<<>>, NotBase64, QUJD, DataUrlPrefix(PNG) \o QUJD,
         DataUrlPrefix(JPEG) \o Padded, DataUrlPrefix(PNG) \o <<"!","!">>,
         DataUrlPrefix(GIF) \o QUJD}}

Contexts ==
    {Plain(<<>>), Packed(<<>>, "c", MaxContextLen),
     Packed(<<>>, "c", MaxContextLen + 1)}

TokenLimits ==
    {SchemaMinTokens - 1, SchemaMinTokens, SchemaMaxTokens, SchemaMaxTokens + 1}

Opt(S, none) == {none} \cup {Some(v) : v \in S}

Requests ==
    [question : Opt(Questions, NoPacked), image : Opt(Images, NoPacked),
     context : Opt(Contexts, NoPacked), maxTokens : Opt(TokenLimits, NoNumber)]

MaxRetriesValues == (-1)..MaxRetriesBound

\* what one invocation of the provider call can do
ProviderFailures == {"quota exceeded", "service unavailable"}
Answers == {"red", "blue"}
Durations(timeout) == {0, timeout, timeout + 1}
Jitters == {0, JitterRange \div 2, JitterRange - 1}

Outcomes(timeout) ==
    [kind : {"reject"}, message : ProviderFailures]
        \cup {[kind |-> "noresponse"]}
        \cup [kind : {"resolve"}, text : Answers, duration : Durations(timeout)]

----------------------------------------------------------------------------
(* The MCP stdio server: values, paths and files *)

\* A JavaScript value of a tool argument: its typeof and its text (the
\* characters of a string, the decimal digits of a number).
Undefined == [type |-> "undefined", val |-> <<>>]
JsString(s) == [type |-> "string", val |-> s]
JsNumber(digits) == [type |-> "number", val |-> digits]

\* !v for a tool argument
Falsy(v) ==
    \/ v.type = "undefined"
    \/ v.type = "string" /\ v.val = <<>>
    \/ v.type = "number" /\ v.val = <<"0">>

\* the test `!v || typeof v !== 'string'` of the tool handlers
NotAString(v) == Falsy(v) \/ v.type # "string"

\* a template literal's interpolation of a string
RECURSIVE ToStr(_)
ToStr(s) == IF s = <<>> THEN "" ELSE Head(s) \o ToStr(Tail(s))

UpperCase == <<"A","B","C","D","E","F","G","H","I","J","K","L","M",
               "N","O","P","Q","R","S","T","U","V","W","X","Y","Z">>
LowerCase == <<"a","b","c","d","e","f","g","h","i","j","k","l","m",
               "n","o","p","q","r","s","t","u","v","w","x","y","z">>

\* String.prototype.toLowerCase
toLowerCase(s) ==
    [i \in 1..Len(s) |->
        IF \E k \in 1..26 : UpperCase[k] = s[i]
        THEN LowerCase[CHOOSE k \in 1..26 : UpperCase[k] = s[i]]
        ELSE s[i]]

Max(S) == CHOOSE x \in S : \A y \in S : y <= x

\* path.extname (POSIX): the last path segment from its last dot on; empty
\* when the segment has no dot, starts with its only dot, or is ".."
extname(path) ==
    LET ends == {i \in 1..Len(path) : path[i] # "/"}
        end == IF ends = {} THEN 0 ELSE Max(ends)
        slashes == {i \in 1..end : path[i] = "/"}
        start == IF slashes = {} THEN 1 ELSE Max(slashes) + 1
        dots == {i \in start..end : path[i] = "."}
    IN  IF dots = {} \/ Max(dots) = start
           \/ SubSeq(path, start, end) = <<".", ".">>
        THEN <<>>
        ELSE SubSeq(path, Max(dots), end)

\* mutant of getMimeType: the extension compared as written
getMimeTypeCaseSensitive(filePath) ==
    LET ext == extname(filePath)
    IN  IF ext \in {<<".","j","p","g">>, <<".","j","p","e","g">>} THEN "image/jpeg"
        ELSE IF ext = <<".","p","n","g">> THEN "image/png"
        ELSE IF ext = <<".","g","i","f">> THEN "image/gif"
        ELSE IF ext = <<".","w","e","b","p">> THEN "image/webp"
        ELSE "image/jpeg"

\* getMimeType
getMimeType(filePath) ==
    LET ext == toLowerCase(extname(filePath))
    IN  IF ext \in {<<".","j","p","g">>, <<".","j","p","e","g">>} THEN "image/jpeg"
        ELSE IF ext = <<".","p","n","g">> THEN "image/png"
        ELSE IF ext = <<".","g","i","f">> THEN "image/gif"
        ELSE IF ext = <<".","w","e","b","p">> THEN "image/webp"
        ELSE "image/jpeg"

Base64Digits ==
    <<"A","B","C","D","E","F","G","H","I","J","K","L","M",
      "N","O","P","Q","R","S","T","U","V","W","X","Y","Z",
      "a","b","c","d","e","f","g","h","i","j","k","l","m",
      "n","o","p","q","r","s","t","u","v","w","x","y","z",
      "0","1","2","3","4","5","6","7","8","9","+","/">>

\* Buffer.prototype.toString('base64'): bytes to base64 characters
RECURSIVE toBase64(_)
toBase64(b) ==
    IF Len(b) = 0 THEN <<>>
    ELSE IF Len(b) = 1
    THEN <<Base64Digits[b[1] \div 4 + 1], Base64Digits[(b[1] % 4) * 16 + 1],
           "=", "=">>
    ELSE IF Len(b) = 2
    THEN <<Base64Digits[b[1] \div 4 + 1],
           Base64Digits[(b[1] % 4) * 16 + b[2] \div 16 + 1],
           Base64Digits[(b[2] % 16) * 4 + 1], "=">>
    ELSE <<Base64Digits[b[1] \div 4 + 1],
           Base64Digits[(b[1] % 4) * 16 + b[2] \div 16 + 1],
           Base64Digits[(b[2] % 16) * 4 + b[3] \div 64 + 1],
           Base64Digits[(b[3] % 64) + 1]>> \o toBase64(SubSeq(b, 4, Len(b)))

\* the arguments' defaults of takeWebsiteScreenshot and of the handler
DefaultWaitFor == 3000
DefaultViewportWidth == 1280
DefaultViewportHeight == 720

\* the timeout of page.goto
NavigationTimeout == 30000

\* mutant of UrlParses: the `new URL(url)` test left out
UrlParsesAnything(url) == TRUE

\* new URL(url) does not throw: url is an absolute URL, a scheme of letters
\* before ":" and, for http and https, a host after it
UrlParses(url) ==
    \E i \in 2..Len(url) :
        /\ url[i] = ":"
        /\ \A j \in 1..(i - 1) :
              \E k \in 1..26 : url[j] \in {UpperCase[k], LowerCase[k]}
        /\ toLowerCase(SubSeq(url, 1, i - 1))
              \in {<<"h","t","t","p">>, <<"h","t","t","p","s">>}
           => \E j \in (i + 1)..Len(url) : url[j] # "/"

----------------------------------------------------------------------------
(* The MCP stdio server: inputs *)

PathJpg == <<"a",".","j","p","g">>
PathJpegUpper == <<"a",".","J","P","E","G">>
PathPng == <<"a",".","p","n","g">>
PathPngMixed == <<"a",".","P","n","G">>
PathGif == <<"a",".","g","i","f">>
PathWebpUpper == <<"a",".","W","E","B","P">>
PathBmp == <<"a",".","b","m","p">>
PathBare == <<"a">>
PathDotFile == <<".","p","n","g">>
PathDotDir == <<"a",".","p","n","g","/","c">>
PathTrailingDot == <<"a",".","p","n","g",".">>

FilePaths == {PathJpg, PathJpegUpper, PathPng, PathPngMixed, PathGif,
              PathWebpUpper, PathBmp, PathBare, PathDotFile, PathDotDir,
              PathTrailingDot}

ToolQuestions ==
    {Undefined, JsString(<<>>), JsString(<<"a">>), JsNumber(<<"7">>)}

ImagePathArgs == {Undefined, JsString(<<>>)} \cup {JsString(f) : f \in FilePaths}

UrlHttps == <<"h","t","t","p","s",":","/","/","a",".","b">>

UrlArgs ==
    {Undefined, JsNumber(<<"7">>), JsString(<<>>), JsString(<<"a",".","b">>),
     JsString(<<"h","t","t","p","s",":","/","/">>), JsString(UrlHttps)}

WaitForArgs == {NoNumber, Some(0), Some(500)}
ViewportArgs == {NoNumber, Some(800)}
NoBoolean == [has |-> FALSE, val |-> FALSE]
FullPageArgs == {NoBoolean, Some(TRUE)}

\* what readFileSync can do with a file that exists: return its bytes or
\* throw (the file may also have gone since existsSync saw it)
FileContents == {<<>>, <<65>>, <<65, 66, 67>>}
ReadErrors == {"EACCES: permission denied, open",
               "ENOENT: no such file or directory, open"}

ReadOk(bytes) == [ok |-> TRUE, bytes |-> bytes, message |-> ""]
ReadThrows(message) == [ok |-> FALSE, bytes |-> <<>>, message |-> message]

NoFile == [exists |-> FALSE, read |-> ReadThrows("ENOENT: no such file or directory, open")]

Disks ==
    {NoFile}
        \cup {[exists |-> TRUE, read |-> ReadOk(b)] : b \in FileContents}
        \cup {[exists |-> TRUE, read |-> ReadThrows(m)] : m \in ReadErrors}

\* the bytes page.screenshot can return
Captures == {<<137, 80, 78, 71>>, <<137, 80, 78, 71, 13>>}

\* how an awaited puppeteer call can fail
StepFailures(step) ==
    IF step = "launch" THEN {"Failed to launch the browser process"}
    ELSE IF step = "goto"
    THEN {"Navigation timeout of 30000 ms exceeded", "net::ERR_NAME_NOT_RESOLVED"}
    ELSE IF step = "screenshot"
    THEN {"Protocol error (Page.captureScreenshot): Target closed"}
    ELSE {"Protocol error: Target closed"}

\* what the tool's generateContent call can do
ToolOutcomes ==
    [kind : {"reject"}, message : ProviderFailures]
        \cup {[kind |-> "noresponse"]}
        \cup [kind : {"resolve"}, text : Answers]

FileToolCalls ==
    [name : {"analyze_image_file"}, question : ToolQuestions,
     imagePath : ImagePathArgs, url : {Undefined}, waitFor : {NoNumber},
     viewportWidth : {NoNumber}, viewportHeight : {NoNumber},
     fullPage : {NoBoolean}]

WebsiteToolCalls ==
    [name : {"analyze_website"}, question : ToolQuestions,
     imagePath : {Undefined}, url : UrlArgs, waitFor : WaitForArgs,
     viewportWidth : ViewportArgs, viewportHeight : ViewportArgs,
     fullPage : FullPageArgs]

OtherToolCalls ==
    [name : {"analyze_video"}, question : {JsString(<<"a">>)},
     imagePath : {Undefined}, url : {Undefined}, waitFor : {NoNumber},
     viewportWidth : {NoNumber}, viewportHeight : {NoNumber},
     fullPage : {NoBoolean}]

----------------------------------------------------------------------------
(* The MCP stdio server: initial state *)

NoCall == [name |-> "none", question |-> Undefined, imagePath |-> Undefined,
           url |-> Undefined, waitFor |-> NoNumber, viewportWidth |-> NoNumber,
           viewportHeight |-> NoNumber, fullPage |-> NoBoolean]
NoBrowser == [launched |-> 0, open |-> 0, closeCalls |-> 0]
NoShot ==
    [error |-> NoText, capture |-> [has |-> FALSE, val |-> <<>>],
     viewport |-> [has |-> FALSE, width |-> 0, height |-> 0],
     navigation |-> [has |-> FALSE, waitUntil |-> "", timeout |-> 0],
     waited |-> NoNumber,
     screenshot |-> [has |-> FALSE, type |-> "", fullPage |-> FALSE]]
NoToolRequest == [sent |-> FALSE]
NoToolResult == [kind |-> "none"]

\* a tool call has arrived, nothing has run
ToolFresh ==
    /\ toolPc = "received"
    /\ browser = NoBrowser
    /\ shot = NoShot
    /\ events = <<>>
    /\ toolRequest = NoToolRequest
    /\ toolResult = NoToolResult

\* no tool call: the stdio server is not part of the run
McpIdle ==
    /\ call = NoCall
    /\ toolPc = "idle"
    /\ disk = NoFile
    /\ browser = NoBrowser
    /\ shot = NoShot
    /\ events = <<>>
    /\ toolRequest = NoToolRequest
    /\ toolResult = NoToolResult

----------------------------------------------------------------------------
(* The parts of the system a run leaves out *)

\* no concurrent screenshots
PoolIdle == shots = <<>> /\ processes = <<>>

\* no concurrent requests
SharedIdle == service = [kind |-> "none"] /\ reqs = <<>> /\ frames = <<>>

\* no startup
StartIdle == env = [kind |-> "none"] /\ server = [kind |-> "none"]

----------------------------------------------------------------------------
(* Initial state: a request has arrived, nothing has run *)

NoRetryResult == [kind |-> "none"]
NoValidation == [done |-> FALSE]
NoModelRequest == [sent |-> FALSE]

\* the request-independent part of the initial state
Fresh ==
    /\ pc = "received"
    /\ delay = 0
    /\ attempts = 0
    /\ history = <<>>
    /\ lastError = NoError
    /\ sleepMs = 0
    /\ sleepCount = 0
    /\ invocations = 0
    /\ retryResult = NoRetryResult
    /\ validation = NoValidation
    /\ analyzeCalls = 0
    /\ modelRequest = NoModelRequest
    /\ response = NoResponse

\* any request, on either server, under the default retry policy or a policy
\* of a single attempt
Init ==
    /\ variant \in {"current", "legacy"}
    /\ config \in [maxRetries : IF variant = "current"
                                  THEN {1, DefaultMaxRetries}
                                  ELSE {DefaultMaxRetries},
                    timeout : {DefaultTimeout}]
    /\ input \in Requests
    /\ Fresh
    /\ McpIdle
    /\ PoolIdle /\ SharedIdle /\ StartIdle

\* requests that pass validation and image processing
GoodRequests ==
    [question : {Some(Plain(<<"a">>))},
     image : {Some(Plain(DataUrlPrefix(PNG) \o QUJD))},
     context : {NoPacked, Some(Plain(<<"c">>))},
     maxTokens : {NoNumber}]

\* a request that reaches withRetry, under every retry policy of the bounds
InitRetry ==
    /\ variant = "current"
    /\ config \in [maxRetries : MaxRetriesValues, timeout : {DefaultTimeout}]
    /\ input \in GoodRequests
    /\ Fresh
    /\ McpIdle
    /\ PoolIdle /\ SharedIdle /\ StartIdle

----------------------------------------------------------------------------
(* POST /mcp/tools/analyze_image, current server *)

\* analyzeImage: the generateContent request (the prompt text is left out;
\* withContext says whether it holds the "Context: ..." line)
ModelRequest(in, inlineData) ==
    [sent |-> TRUE, model |-> ModelName, maxOutputTokens |-> in.maxTokens,
     withContext |-> Truthy(in.context), inlineData |-> inlineData]

\* The handler up to its first suspension: validation, then analyzeImage up to
\* the first invocation of the provider call inside withRetry.
HandleRequest ==
    /\ pc = "received"
    /\ variant = "current"
    /\ validation' = Validate(Body(input))
    /\ LET errs == ValidationErrors(Validate(Body(input)))
           img == processImageData(Body(input).image)
       IN  IF ValidationFails(errs)
           THEN /\ response' = Send(response, 400, ValidationEnvelope(errs))
                /\ pc' = "done"
                /\ UNCHANGED <<delay, attempts, invocations, analyzeCalls,
                               modelRequest>>
           ELSE /\ analyzeCalls' = analyzeCalls + 1
                /\ IF ~img.ok
                   THEN /\ response' = Send(response, 500,
                                            ErrorEnvelope(AnalyzeFailure(img.error)))
                        /\ pc' = "done"
                        /\ UNCHANGED <<delay, attempts, invocations, modelRequest>>
                   ELSE /\ modelRequest' = ModelRequest(Body(input), img.inlineData)
                        /\ delay' = InitialDelayMs
                        /\ attempts' = 0
                        /\ invocations' = invocations + 1
                        /\ pc' = "in_flight"
                        /\ UNCHANGED response
    /\ UNCHANGED <<variant, config, input, history, lastError, sleepMs,
                   sleepCount, retryResult>>
    /\ UNCHANGED <<mcpVars, poolVars, sharedVars, startVars>>

\* The awaited provider call settles; withRetry handles the outcome up to its
\* return, its terminal throw or the start of the backoff sleep.  A return or a
\* throw runs on through analyzeImage, the handler and the error middleware.
OperationSettles ==
    /\ pc = "in_flight"
    /\ \E o \in Outcomes(config.timeout), jitter \in Jitters :
        LET good == o.kind = "resolve" /\ ~TimedOut(o.duration, config.timeout)
            error == IF o.kind = "reject" THEN PlainError(o.message)
                     ELSE IF o.kind = "noresponse"
                          THEN PlainError("No response received from Gemini API")
                     ELSE TimeoutError(o.duration)
        IN  /\ history' = Append(history, o)
            /\ IF good
               THEN /\ retryResult' = [kind |-> "returned", call |-> invocations,
                                       text |-> o.text]
                    /\ response' = Send(response, 200, AnalyzeResult(o.text))
                    /\ pc' = "done"
                    /\ UNCHANGED <<attempts, lastError, sleepMs, sleepCount>>
               ELSE /\ attempts' = attempts + 1
                    /\ lastError' = error
                    /\ IF RetryExhausted(attempts + 1, config.maxRetries)
                       THEN /\ retryResult' = [kind |-> "thrown",
                                               error |-> MaxRetryError(error)]
                            /\ response' = Send(response, 500,
                                    ErrorEnvelope(AnalyzeFailure(MaxRetryError(error))))
                            /\ pc' = "done"
                            /\ sleepCount' = IF SleepReached(TRUE)
                                             THEN sleepCount + 1 ELSE sleepCount
                            /\ UNCHANGED sleepMs
                       ELSE /\ sleepMs' = SleepTime(delay, jitter)
                            /\ sleepCount' = sleepCount + 1
                            /\ pc' = "sleeping"
                            /\ UNCHANGED <<retryResult, response>>
    /\ UNCHANGED <<variant, config, input, delay, invocations, validation,
                   analyzeCalls, modelRequest>>
    /\ UNCHANGED <<mcpVars, poolVars, sharedVars, startVars>>

\* The backoff timer fires: the delay grows and the operation is invoked again.
BackoffElapsed ==
    /\ pc = "sleeping"
    /\ delay' = NextDelay(delay)
    /\ sleepMs' = 0
    /\ invocations' = invocations + 1
    /\ pc' = "in_flight"
    /\ UNCHANGED <<variant, config, input, attempts, history, lastError,
                   sleepCount, retryResult, validation, analyzeCalls,
                   modelRequest, response>>
    /\ UNCHANGED <<mcpVars, poolVars, sharedVars, startVars>>

----------------------------------------------------------------------------
(* POST /mcp/tools/analyze_image, legacy server (no validator, no retry) *)

LegacyModelName == "gemini-pro-vision"

\* the legacy handler's test `!input.question || !input.image`
LegacyInvalid(in) == ~Truthy(in.question) \/ ~Truthy(in.image)

LegacyValidationEnvelope ==
    [kind |-> "error", error |-> "Invalid input",
     details |-> Some("Question and image are required")]

\* the legacy handler's catch
LegacyErrorEnvelope(err) ==
    [kind |-> "error", error |-> "Internal server error",
     details |-> Some(err.message)]

LegacyModelRequest(in) ==
    [sent |-> TRUE, model |-> LegacyModelName, maxOutputTokens |-> NoNumber,
     withContext |-> FALSE,
     inlineData |-> [data |-> StripDataUrl(in.image.val),
                     mimeType |-> "image/jpeg"]]

LegacyAnalyzeResult(text) ==
    [kind |-> "result", answer |-> text, confidence |-> "0.9"]

LegacyHandleRequest ==
    /\ pc = "received"
    /\ variant = "legacy"
    /\ IF LegacyInvalid(Body(input))
       THEN /\ response' = Send(response, 400, LegacyValidationEnvelope)
            /\ pc' = "done"
            /\ UNCHANGED <<invocations, analyzeCalls, modelRequest>>
       ELSE /\ analyzeCalls' = analyzeCalls + 1
            /\ modelRequest' = LegacyModelRequest(Body(input))
            /\ invocations' = invocations + 1
            /\ pc' = "legacy_in_flight"
            /\ UNCHANGED response
    /\ UNCHANGED <<variant, config, input, delay, attempts, history, lastError,
                   sleepMs, sleepCount, retryResult, validation>>
    /\ UNCHANGED <<mcpVars, poolVars, sharedVars, startVars>>

LegacySettles ==
    /\ pc = "legacy_in_flight"
    /\ \E o \in Outcomes(config.timeout) :
        /\ history' = Append(history, o)
        /\ response' =
              IF o.kind = "resolve"
              THEN Send(response, 200, LegacyAnalyzeResult(o.text))
              ELSE Send(response, 500, LegacyErrorEnvelope(
                        PlainError("Failed to analyze image with Gemini API")))
    /\ pc' = "done"
    /\ UNCHANGED <<variant, config, input, delay, attempts, lastError, sleepMs,
                   sleepCount, invocations, retryResult, validation,
                   analyzeCalls, modelRequest>>
    /\ UNCHANGED <<mcpVars, poolVars, sharedVars, startVars>>

----------------------------------------------------------------------------

Next ==
    \/ HandleRequest
    \/ OperationSettles
    \/ BackoffElapsed
    \/ LegacyHandleRequest
    \/ LegacySettles

Spec == Init /\ [][Next]_vars

\* the current server alone
NextRetry ==
    \/ HandleRequest
    \/ OperationSettles
    \/ BackoffElapsed

SpecRetry == InitRetry /\ [][NextRetry]_vars

\* the same runs when the handler is scheduled, every invocation of the
\* operation settles and every backoff timer fires
SpecRetryFair ==
    /\ SpecRetry
    /\ WF_vars(HandleRequest)
    /\ WF_vars(OperationSettles)
    /\ WF_vars(BackoffElapsed)

----------------------------------------------------------------------------
(* The MCP stdio server: the tools/call handler *)

ToolModelName == "gemini-2.0-flash-exp"

\* mutant of ToolError: the failure returned without the isError flag
ToolErrorUnflagged(message) ==
    [kind |-> "result", isError |-> FALSE, text |-> "Error: " \o message]

\* the handler's catch: the failure as a tool result
ToolError(message) ==
    [kind |-> "result", isError |-> TRUE, text |-> "Error: " \o message]

\* the handler's return after a provider answer
ToolAnswer(text) == [kind |-> "result", isError |-> FALSE, text |-> text]

\* the generateContent request of a tool: [question, imagePart]
ToolRequest(bytes, mimeType) ==
    [sent |-> TRUE, model |-> ToolModelName, mimeType |-> mimeType,
     data |-> toBase64(bytes), sizeBytes |-> Len(bytes)]

\* mutant of FileMissing: the existence check left out
FileMissingNever(d) == FALSE

\* the handler's test `!existsSync(imagePath)`
FileMissing(d) == ~d.exists

\* analyze_image_file up to its first suspension: the argument checks, the
\* existence check, the read, and the invocation of generateContent
AnalyzeImageFile ==
    /\ toolPc = "received"
    /\ call.name = "analyze_image_file"
    /\ IF NotAString(call.question)
       THEN /\ toolResult' = ToolError("Question is required and must be a string")
            /\ toolPc' = "done"
            /\ UNCHANGED <<events, toolRequest>>
       ELSE IF NotAString(call.imagePath)
       THEN /\ toolResult' = ToolError("Image path is required and must be a string")
            /\ toolPc' = "done"
            /\ UNCHANGED <<events, toolRequest>>
       ELSE IF FileMissing(disk)
       THEN /\ events' = events \o <<"existsSync">>
            /\ toolResult' = ToolError("Image file not found: "
                                           \o ToStr(call.imagePath.val))
            /\ toolPc' = "done"
            /\ UNCHANGED toolRequest
       ELSE IF ~disk.read.ok
       THEN /\ events' = events \o <<"existsSync", "readFileSync">>
            /\ toolResult' = ToolError("Failed to read image file: "
                                           \o disk.read.message)
            /\ toolPc' = "done"
            /\ UNCHANGED toolRequest
       ELSE /\ events' = events \o <<"existsSync", "readFileSync",
                                     "generateContent">>
            /\ toolRequest' = ToolRequest(disk.read.bytes,
                                          getMimeType(call.imagePath.val))
            /\ toolPc' = "generate"
            /\ UNCHANGED toolResult
    /\ UNCHANGED <<call, disk, browser, shot>>
    /\ UNCHANGED <<httpVars, poolVars, sharedVars, startVars>>

\* the awaited puppeteer calls of takeWebsiteScreenshot, in order
ScreenshotSteps ==
    <<"launch", "newPage", "setViewport", "setUserAgent", "goto", "screenshot">>

\* the waitFor in force: the argument, or its default
WaitFor(c) == IF c.waitFor.has THEN c.waitFor.val ELSE DefaultWaitFor

\* mutant of AfterStep: the wait before the screenshot left out
AfterStepWithoutWait(step, waitFor) ==
    IF step = "launch" THEN "newPage"
    ELSE IF step = "newPage" THEN "setViewport"
    ELSE IF step = "setViewport" THEN "setUserAgent"
    ELSE IF step = "setUserAgent" THEN "goto"
    ELSE IF step \in {"goto", "wait"} THEN "screenshot"
    ELSE "close"

\* what takeWebsiteScreenshot awaits after a step that succeeded
AfterStep(step, waitFor) ==
    IF step = "launch" THEN "newPage"
    ELSE IF step = "newPage" THEN "setViewport"
    ELSE IF step = "setViewport" THEN "setUserAgent"
    ELSE IF step = "setUserAgent" THEN "goto"
    ELSE IF step = "goto" THEN (IF waitFor > 0 THEN "wait" ELSE "screenshot")
    ELSE IF step = "wait" THEN "screenshot"
    ELSE "close"

\* the arguments in force: those of the call, or their defaults
ViewportWidth(c) ==
    IF c.viewportWidth.has THEN c.viewportWidth.val ELSE DefaultViewportWidth
ViewportHeight(c) ==
    IF c.viewportHeight.has THEN c.viewportHeight.val ELSE DefaultViewportHeight
FullPage(c) == IF c.fullPage.has THEN c.fullPage.val ELSE FALSE

\* takeWebsiteScreenshot makes the call `step`: the arguments it passes
Invoke(s, step, c) ==
    IF step = "setViewport"
    THEN [s EXCEPT !.viewport = [has |-> TRUE, width |-> ViewportWidth(c),
                                 height |-> ViewportHeight(c)]]
    ELSE IF step = "goto"
    THEN [s EXCEPT !.navigation = [has |-> TRUE, waitUntil |-> "networkidle0",
                                   timeout |-> NavigationTimeout]]
    ELSE IF step = "wait"
    THEN [s EXCEPT !.waited = Some(WaitFor(c))]
    ELSE IF step = "screenshot"
    THEN [s EXCEPT !.screenshot = [has |-> TRUE, type |-> "png",
                                   fullPage |-> FullPage(c)]]
    ELSE s

\* mutant of AfterFailure: browser.close() after the try block, not in finally
AfterFailureNoFinally(step) == "done"

\* where a failed step leads: launch is outside the try block, every later
\* step inside it, so that its failure runs the finally block
AfterFailure(step) == IF step = "launch" THEN "done" ELSE "close"

\* analyze_website up to its first suspension: the argument checks and the
\* invocation of puppeteer.launch
AnalyzeWebsite ==
    /\ toolPc = "received"
    /\ call.name = "analyze_website"
    /\ IF NotAString(call.question)
       THEN /\ toolResult' = ToolError("Question is required and must be a string")
            /\ toolPc' = "done"
            /\ UNCHANGED events
       ELSE IF NotAString(call.url)
       THEN /\ toolResult' = ToolError("URL is required and must be a string")
            /\ toolPc' = "done"
            /\ UNCHANGED events
       ELSE IF ~UrlParses(call.url.val)
       THEN /\ toolResult' = ToolError("Invalid URL format")
            /\ toolPc' = "done"
            /\ UNCHANGED events
       ELSE /\ events' = events \o <<"launch">>
            /\ toolPc' = "launch"
            /\ UNCHANGED toolResult
    /\ UNCHANGED <<call, disk, browser, shot, toolRequest>>
    /\ UNCHANGED <<httpVars, poolVars, sharedVars, startVars>>

\* An awaited puppeteer call settles.  When it resolves the next call is
\* made; when it rejects, the finally block calls browser.close(), except
\* for launch, whose rejection leaves takeWebsiteScreenshot at once.
BrowserStepSettles ==
    /\ \E i \in 1..Len(ScreenshotSteps) : toolPc = ScreenshotSteps[i]
    /\ \/ \E capture \in Captures :
            LET next == AfterStep(toolPc, WaitFor(call))
            IN  /\ toolPc' = next
                /\ events' = Append(events, next)
                /\ browser' =
                      [launched |-> browser.launched
                                        + (IF toolPc = "launch" THEN 1 ELSE 0),
                       open |-> browser.open
                                    + (IF toolPc = "launch" THEN 1 ELSE 0),
                       closeCalls |-> browser.closeCalls
                                          + (IF next = "close" THEN 1 ELSE 0)]
                /\ shot' = IF toolPc = "screenshot"
                           THEN [shot EXCEPT !.capture = Some(capture)]
                           ELSE Invoke(shot, next, call)
                /\ UNCHANGED toolResult
       \/ \E message \in StepFailures(toolPc) :
            IF AfterFailure(toolPc) = "close"
            THEN /\ toolPc' = "close"
                 /\ events' = Append(events, "close")
                 /\ browser' = [browser EXCEPT !.closeCalls = @ + 1]
                 /\ shot' = [shot EXCEPT !.error = Some(message)]
                 /\ UNCHANGED toolResult
            ELSE /\ toolPc' = "done"
                 /\ toolResult' = ToolError(message)
                 /\ UNCHANGED <<events, browser, shot>>
    /\ UNCHANGED <<call, disk, toolRequest>>
    /\ UNCHANGED <<httpVars, poolVars, sharedVars, startVars>>

\* the setTimeout(waitFor) between navigation and screenshot fires
WaitElapsed ==
    /\ toolPc = "wait"
    /\ toolPc' = AfterStep("wait", WaitFor(call))
    /\ events' = Append(events, AfterStep("wait", WaitFor(call)))
    /\ shot' = Invoke(shot, AfterStep("wait", WaitFor(call)), call)
    /\ UNCHANGED <<call, disk, browser, toolRequest, toolResult>>
    /\ UNCHANGED <<httpVars, poolVars, sharedVars, startVars>>

\* mutant of CaptureFailed: the failure of the try block forgotten
CaptureFailedIgnored(s) == FALSE

\* takeWebsiteScreenshot throws after its finally block
CaptureFailed(s) == s.error.has

\* the screenshot's mime type in analyze_website
ScreenshotMimeType == "image/png"

\* browser.close() resolves: takeWebsiteScreenshot returns the screenshot, and
\* the handler invokes generateContent, or rethrows the failure of its try
\* block, which the handler catches
BrowserCloses ==
    /\ toolPc = "close"
    /\ browser' = [browser EXCEPT !.open = @ - 1]
    /\ IF CaptureFailed(shot)
       THEN /\ toolResult' = ToolError(shot.error.val)
            /\ toolPc' = "done"
            /\ UNCHANGED <<events, toolRequest>>
       ELSE /\ events' = Append(events, "generateContent")
            /\ toolRequest' = ToolRequest(shot.capture.val, ScreenshotMimeType)
            /\ toolPc' = "generate"
            /\ UNCHANGED toolResult
    /\ UNCHANGED <<call, disk, shot>>
    /\ UNCHANGED <<httpVars, poolVars, sharedVars, startVars>>

\* the tool's generateContent call settles and the handler returns
ToolProviderSettles ==
    /\ toolPc = "generate"
    /\ \E o \in ToolOutcomes :
          toolResult' =
              IF o.kind = "resolve" THEN ToolAnswer(o.text)
              ELSE IF o.kind = "reject" THEN ToolError(o.message)
              ELSE ToolError("Cannot read properties of undefined (reading 'text')")
    /\ toolPc' = "done"
    /\ UNCHANGED <<call, disk, browser, shot, events, toolRequest>>
    /\ UNCHANGED <<httpVars, poolVars, sharedVars, startVars>>

\* a call of a tool the server does not have: the handler throws
UnknownTool ==
    /\ toolPc = "received"
    /\ call.name \notin {"analyze_image_file", "analyze_website"}
    /\ toolResult' = [kind |-> "thrown", message |-> "Unknown tool: " \o call.name]
    /\ toolPc' = "done"
    /\ UNCHANGED <<call, disk, browser, shot, events, toolRequest>>
    /\ UNCHANGED <<httpVars, poolVars, sharedVars, startVars>>

\* the HTTP server is not part of the run
HttpIdle ==
    /\ variant = "current"
    /\ config = [maxRetries |-> DefaultMaxRetries, timeout |-> DefaultTimeout]
    /\ input = [question |-> NoPacked, image |-> NoPacked, context |-> NoPacked,
                maxTokens |-> NoNumber]
    /\ pc = "idle"
    /\ delay = 0
    /\ attempts = 0
    /\ history = <<>>
    /\ lastError = NoError
    /\ sleepMs = 0
    /\ sleepCount = 0
    /\ invocations = 0
    /\ retryResult = NoRetryResult
    /\ validation = NoValidation
    /\ analyzeCalls = 0
    /\ modelRequest = NoModelRequest
    /\ response = NoResponse

\* any call of a tool, with any file at the path of a file call
InitMcp ==
    /\ call \in FileToolCalls \cup WebsiteToolCalls \cup OtherToolCalls
    /\ disk \in IF call.name = "analyze_image_file" THEN Disks ELSE {NoFile}
    /\ ToolFresh
    /\ HttpIdle
    /\ PoolIdle /\ SharedIdle /\ StartIdle

NextMcp ==
    \/ AnalyzeImageFile
    \/ AnalyzeWebsite
    \/ BrowserStepSettles
    \/ WaitElapsed
    \/ BrowserCloses
    \/ ToolProviderSettles
    \/ UnknownTool

SpecMcp == InitMcp /\ [][NextMcp]_vars

----------------------------------------------------------------------------
(* Concurrent takeWebsiteScreenshot calls *)

\* mutant of LaunchedBrowser: an open browser taken from a pool
PooledBrowser(procs) ==
    IF \E b \in 1..Len(procs) : procs[b].open
    THEN CHOOSE b \in 1..Len(procs) : procs[b].open
    ELSE Len(procs) + 1

\* the browser puppeteer.launch resolves with: a process of its own
LaunchedBrowser(procs) == Len(procs) + 1

\* a browser process just launched by call c
NewProcess(c) == [open |-> TRUE, launchedBy |-> c, closedBy |-> 0, closeCalls |-> 0]

\* a takeWebsiteScreenshot call not made yet
NoShotCall == [pc |-> "idle", browser |-> 0, failed |-> FALSE]

\* the finally block of call c: browser.close() on the call's own `browser`
CloseCalled(procs, b, c) ==
    [procs EXCEPT ![b].closeCalls = @ + 1, ![b].closedBy = c]

\* takeWebsiteScreenshot is called: puppeteer.launch is awaited
ShotCalled ==
    /\ \E c \in DOMAIN shots :
          /\ shots[c].pc = "idle"
          /\ shots' = [shots EXCEPT ![c].pc = "launch"]
    /\ UNCHANGED processes
    /\ UNCHANGED <<httpVars, mcpVars, sharedVars, startVars>>

\* an awaited puppeteer call of call c settles
ShotStepSettles ==
    /\ \E c \in DOMAIN shots :
          /\ \E i \in 1..Len(ScreenshotSteps) : shots[c].pc = ScreenshotSteps[i]
          /\ LET step == shots[c].pc
                 next == AfterStep(step, DefaultWaitFor)
                 b == IF step = "launch" THEN LaunchedBrowser(processes)
                      ELSE shots[c].browser
                 procs == IF b > Len(processes)
                          THEN Append(processes, NewProcess(c)) ELSE processes
             IN  \/ /\ shots' = [shots EXCEPT ![c].pc = next, ![c].browser = b]
                    /\ processes' = IF next = "close"
                                    THEN CloseCalled(procs, b, c) ELSE procs
                 \/ /\ StepFailures(step) # {}
                    /\ IF AfterFailure(step) = "close"
                       THEN /\ shots' = [shots EXCEPT ![c].pc = "close",
                                                      ![c].failed = TRUE]
                            /\ processes' = CloseCalled(processes, b, c)
                       ELSE /\ shots' = [shots EXCEPT ![c].pc = "ended",
                                                      ![c].failed = TRUE]
                            /\ UNCHANGED processes
    /\ UNCHANGED <<httpVars, mcpVars, sharedVars, startVars>>

\* the setTimeout(waitFor) of a call fires
ShotWaitElapsed ==
    /\ \E c \in DOMAIN shots :
          /\ shots[c].pc = "wait"
          /\ shots' = [shots EXCEPT ![c].pc = AfterStep("wait", DefaultWaitFor)]
    /\ UNCHANGED processes
    /\ UNCHANGED <<httpVars, mcpVars, sharedVars, startVars>>

\* browser.close() of a call resolves and the call returns or throws
ShotBrowserCloses ==
    /\ \E c \in DOMAIN shots :
          /\ shots[c].pc = "close"
          /\ processes' = [processes EXCEPT ![shots[c].browser].open = FALSE]
          /\ shots' = [shots EXCEPT ![c].pc = "ended"]
    /\ UNCHANGED <<httpVars, mcpVars, sharedVars, startVars>>

\* MaxCalls analyze_website calls arrive and run takeWebsiteScreenshot
InitPool ==
    /\ shots = [c \in 1..MaxCalls |-> NoShotCall]
    /\ processes = <<>>
    /\ HttpIdle
    /\ McpIdle
    /\ SharedIdle /\ StartIdle

NextPool ==
    \/ ShotCalled
    \/ ShotStepSettles
    \/ ShotWaitElapsed
    \/ ShotBrowserCloses

SpecPool == InitPool /\ [][NextPool]_vars

----------------------------------------------------------------------------
(* Concurrent requests on one GeminiService *)

\* GeminiService.constructor: the fields the retry executor reads
NewGeminiService(cfg) ==
    [config |-> cfg,
     retryConfig |-> [maxRetries |-> cfg.maxRetries,
                      initialDelayMs |-> InitialDelayMs,
                      maxDelayMs |-> MaxDelayMs,
                      backoffMultiplier |-> BackoffMultiplier]]

\* mutant of OwnFrame: delay and attempts kept in fields of the service
SharedFrame(frs) == 1

\* where the `delay` and `attempts` of a withRetry call live: they are locals,
\* so that each call has a frame of its own
OwnFrame(frs) == Len(frs) + 1

\* withRetry's `let delay = initialDelayMs; let attempts = 0`
NewFrame == [delay |-> InitialDelayMs, attempts |-> 0]

\* a request that has arrived
NewRequest(in) ==
    [input |-> in, pc |-> "received", verdicts |-> <<>>, frame |-> 0,
     invocations |-> 0, failures |-> 0, delays |-> <<>>, result |-> "none"]

SharedRequests ==
    {[question |-> Some(Plain(<<"a">>)),
      image |-> Some(Plain(DataUrlPrefix(PNG) \o QUJD)),
      context |-> NoPacked, maxTokens |-> NoNumber],
     [question |-> Some(Plain(<<" ">>)),
      image |-> Some(Plain(NotBase64)),
      context |-> NoPacked, maxTokens |-> NoNumber]}

\* the validator is applied to a request (the handler does so once)
ValidateRequest ==
    /\ \E r \in DOMAIN reqs :
          /\ reqs[r].pc = "received"
          /\ Len(reqs[r].verdicts) < MaxValidations
          /\ reqs' = [reqs EXCEPT ![r].verdicts =
                          Append(@, Validate(Body(reqs[r].input)))]
    /\ UNCHANGED <<service, frames>>
    /\ UNCHANGED <<httpVars, mcpVars, poolVars, startVars>>

\* the handler goes on after validation: the 400 response, or analyzeImage
\* up to the first invocation of the provider call inside withRetry
AnalyzeShared ==
    /\ \E r \in DOMAIN reqs :
          /\ reqs[r].pc = "received"
          /\ reqs[r].verdicts # <<>>
          /\ LET v == reqs[r].verdicts[Len(reqs[r].verdicts)]
                 f == OwnFrame(frames)
             IN  IF ValidationFails(ValidationErrors(v))
                 THEN /\ reqs' = [reqs EXCEPT ![r].pc = "done",
                                              ![r].result = "rejected"]
                      /\ UNCHANGED frames
                 ELSE /\ reqs' = [reqs EXCEPT ![r].pc = "in_flight",
                                              ![r].frame = f,
                                              ![r].invocations = 1]
                      /\ frames' = IF f > Len(frames)
                                   THEN Append(frames, NewFrame)
                                   ELSE [frames EXCEPT ![f] = NewFrame]
    /\ UNCHANGED service
    /\ UNCHANGED <<httpVars, mcpVars, poolVars, startVars>>

\* the provider call of a request settles
SharedSettles ==
    /\ \E r \in DOMAIN reqs, good \in BOOLEAN :
          /\ reqs[r].pc = "in_flight"
          /\ LET f == reqs[r].frame
             IN  IF good
                 THEN /\ reqs' = [reqs EXCEPT ![r].pc = "done",
                                              ![r].result = "returned"]
                      /\ UNCHANGED frames
                 ELSE /\ frames' = [frames EXCEPT ![f].attempts = @ + 1]
                      /\ IF RetryExhausted(frames[f].attempts + 1,
                                           service.retryConfig.maxRetries)
                         THEN reqs' = [reqs EXCEPT ![r].pc = "done",
                                                   ![r].failures = @ + 1,
                                                   ![r].result = "thrown"]
                         ELSE reqs' = [reqs EXCEPT ![r].pc = "sleeping",
                                                   ![r].failures = @ + 1,
                                                   ![r].delays =
                                                       Append(@, frames[f].delay)]
    /\ UNCHANGED service
    /\ UNCHANGED <<httpVars, mcpVars, poolVars, startVars>>

\* the backoff timer of a request fires
SharedBackoffElapsed ==
    /\ \E r \in DOMAIN reqs :
          /\ reqs[r].pc = "sleeping"
          /\ frames' = [frames EXCEPT ![reqs[r].frame].delay = NextDelay(@)]
          /\ reqs' = [reqs EXCEPT ![r].pc = "in_flight",
                                  ![r].invocations = @ + 1]
    /\ UNCHANGED service
    /\ UNCHANGED <<httpVars, mcpVars, poolVars, startVars>>

\* MaxRequests requests arrive at one service
InitShared ==
    /\ service \in {NewGeminiService([maxRetries |-> m, timeout |-> DefaultTimeout]) :
                       m \in {DefaultMaxRetries - 1, DefaultMaxRetries}}
    /\ reqs \in [1..MaxRequests -> {NewRequest(in) : in \in SharedRequests}]
    /\ frames = <<>>
    /\ HttpIdle
    /\ McpIdle
    /\ PoolIdle /\ StartIdle

NextShared ==
    \/ ValidateRequest
    \/ AnalyzeShared
    \/ SharedSettles
    \/ SharedBackoffElapsed

SpecShared == InitShared /\ [][NextShared]_vars

----------------------------------------------------------------------------
(* Configuration and startup of the HTTP server *)

DefaultPort == 7777
DefaultRateLimitWindow == 900000
DefaultRateLimitMax == 100

Digits == <<"0","1","2","3","4","5","6","7","8","9">>

IsDigit(c) == \E k \in 1..10 : Digits[k] = c
DigitValue(c) == (CHOOSE k \in 1..10 : Digits[k] = c) - 1

RECURSIVE DecimalValue(_)
DecimalValue(ds) ==
    IF ds = <<>> THEN 0
    ELSE 10 * DecimalValue(SubSeq(ds, 1, Len(ds) - 1)) + DigitValue(ds[Len(ds)])

\* parseInt(value, 10): white space, a sign, then as many digits as follow;
\* NaN when there is none
parseInt(value) ==
    LET spaces == {i \in 0..Len(value) : \A j \in 1..i : value[j] \in WhiteSpace}
        from == Max(spaces) + 1
        signed == from <= Len(value) /\ value[from] \in {"+", "-"}
        first == IF signed THEN from + 1 ELSE from
        runs == {i \in (first - 1)..Len(value) : \A j \in first..i : IsDigit(value[j])}
        last == Max(runs)
        magnitude == DecimalValue(SubSeq(value, first, last))
    IN  IF last < first THEN [nan |-> TRUE, val |-> 0]
        ELSE [nan |-> FALSE,
              val |-> IF signed /\ value[from] = "-" THEN 0 - magnitude
                      ELSE magnitude]

\* String(n) for the defaults of getConfig
RECURSIVE DecimalDigits(_)
DecimalDigits(n) ==
    IF n < 10 THEN <<Digits[n + 1]>>
    ELSE Append(DecimalDigits(n \div 10), Digits[(n % 10) + 1])

\* mutant of parseInteger: values below 1 refused like NaN
parseIntegerPositive(value, defaultValue) ==
    LET parsed == parseInt(value)
    IN  IF parsed.nan \/ parsed.val < 1 THEN defaultValue ELSE parsed.val

\* parseInteger(name, value, defaultValue) with a default: whatever integer
\* parseInt reads, and the default for NaN
parseInteger(value, defaultValue) ==
    LET parsed == parseInt(value)
    IN  IF parsed.nan THEN defaultValue ELSE parsed.val

\* parseIntegerWithErrors(name, value, defaultValue): the default for a value
\* that is missing, empty or no integer
parseIntegerWithErrors(value, defaultValue) ==
    parseInteger(IF value.has /\ value.val # <<>> THEN value.val
                 ELSE DecimalDigits(defaultValue),
                 defaultValue)

\* errors.join('\n')
RECURSIVE JoinLines(_)
JoinLines(errs) ==
    IF Len(errs) = 1 THEN errs[1]
    ELSE errs[1] \o "\n" \o JoinLines(Tail(errs))

\* getConfig: the config, or the ConfigurationError it throws
getConfig(e) ==
    LET errors == IF ~e.GEMINI_API_KEY.has \/ e.GEMINI_API_KEY.val = <<>>
                  THEN <<"Configuration Error: Missing required environment variable: GEMINI_API_KEY">>
                  ELSE <<>>
        maxRetries == parseIntegerWithErrors(e.GEMINI_MAX_RETRIES, DefaultMaxRetries)
        timeout == parseIntegerWithErrors(e.GEMINI_TIMEOUT, DefaultTimeout)
        port == parseIntegerWithErrors(e.PORT, DefaultPort)
        rateLimitWindow ==
            parseIntegerWithErrors(e.RATE_LIMIT_WINDOW, DefaultRateLimitWindow)
        rateLimitMax == parseIntegerWithErrors(e.RATE_LIMIT_MAX, DefaultRateLimitMax)
    IN  IF Len(errors) > 0
        THEN [ok |-> FALSE,
              error |-> [name |-> "ConfigurationError",
                         message |-> "Configuration Error: " \o JoinLines(errors)]]
        ELSE [ok |-> TRUE,
              config |-> [port |-> port,
                          gemini |-> [maxRetries |-> maxRetries,
                                      timeout |-> timeout],
                          server |-> [rateLimit |-> [windowMs |-> rateLimitWindow,
                                                     max |-> rateLimitMax]]]]

NoSeq == [has |-> FALSE, val |-> <<>>]

ApiKeys == {NoSeq, Some(<<>>), Some(<<"k">>)}

MaxRetriesSettings ==
    {NoSeq, Some(<<>>), Some(<<"0">>), Some(<<"-","1">>), Some(<<"1">>),
     Some(<<"3">>), Some(<<"a","b","c">>), Some(<<"5","x">>)}

\* the environments of the startup runs: the other settings are not set
Environments ==
    [GEMINI_API_KEY : ApiKeys, GEMINI_MAX_RETRIES : MaxRetriesSettings,
     GEMINI_TIMEOUT : {NoSeq}, PORT : {NoSeq}, RATE_LIMIT_WINDOW : {NoSeq},
     RATE_LIMIT_MAX : {NoSeq}]

IntegerSettings ==
    {NoSeq, Some(<<>>), Some(<<"a","b","c">>), Some(<<"-","1">>),
     Some(<<"8","0">>)}

\* the environments getConfig is read in
ConfigEnvironments ==
    [GEMINI_API_KEY : ApiKeys, GEMINI_MAX_RETRIES : MaxRetriesSettings,
     GEMINI_TIMEOUT : IntegerSettings, PORT : IntegerSettings,
     RATE_LIMIT_WINDOW : IntegerSettings, RATE_LIMIT_MAX : IntegerSettings]

\* the process before `new VQAMCPServer()`
NoServer ==
    [kind |-> "none", error |-> "", config |-> [kind |-> "none"],
     service |-> [kind |-> "none"],
     handle |-> 0, sockets |-> <<>>, listening |-> FALSE, listenCalls |-> 0,
     middleware |-> 0, routes |-> 0, errorHandlers |-> 0, served |-> FALSE,
     isShuttingDown |-> FALSE, closeCalls |-> 0, cli |-> FALSE,
     exit |-> NoNumber, starts |-> <<>>, stops |-> <<>>]

\* mutant of InitializeThrows: the failure of the connection test swallowed
InitializeThrowsNever(connected) == FALSE

\* initialize() rethrows the failure of validateConnection
InitializeThrows(connected) == ~connected

\* new VQAMCPServer(): getConfig, then the service built from the config
Construct ==
    /\ server.kind = "none"
    /\ ~server.exit.has
    /\ LET c == getConfig(env)
       IN  server' = IF c.ok
                     THEN [server EXCEPT !.kind = "constructed",
                                         !.config = c.config,
                                         !.service = NewGeminiService(c.config.gemini)]
                     ELSE [server EXCEPT !.kind = "threw",
                                         !.error = c.error.message]
    /\ UNCHANGED env
    /\ UNCHANGED <<httpVars, mcpVars, poolVars, sharedVars>>

\* the server has a socket that listens
Listening(sockets) == \E k \in DOMAIN sockets : sockets[k] = "listening"

\* the sockets of the process after a change to one of them
WithSockets(srv, sockets) ==
    [srv EXCEPT !.sockets = sockets, !.listening = Listening(sockets)]

\* the CLI's catch around `await server.start()`: process.exit(1)
StartRejected(srv) == IF srv.cli THEN [srv EXCEPT !.exit = Some(1)] ELSE srv

\* start()'s guard `if (this.server)`
AlreadyRunning(handle) == handle # 0

\* start() is called: the guard, then initialize() up to the awaited
\* validateConnection.  The CLI calls start() once, straight after the
\* constructor.
StartCalled ==
    /\ server.kind = "constructed"
    /\ ~server.exit.has
    /\ Len(server.starts) < MaxStarts
    /\ server.cli => server.starts = <<>>
    /\ server' = [server EXCEPT !.starts =
                      Append(@, IF AlreadyRunning(server.handle)
                                THEN [pc |-> "rejected", connected |-> FALSE,
                                      socket |-> 0,
                                      error |-> "Server is already running"]
                                ELSE [pc |-> "connecting", connected |-> FALSE,
                                      socket |-> 0, error |-> ""])]
    /\ UNCHANGED env
    /\ UNCHANGED <<httpVars, mcpVars, poolVars, sharedVars>>

\* validateConnection settles: initialize() throws, or sets up middleware,
\* routes and error handling, after which start() calls listen and keeps
\* the new http.Server in this.server
ConnectionSettles ==
    /\ ~server.exit.has
    /\ \E i \in DOMAIN server.starts, connected \in BOOLEAN :
          /\ server.starts[i].pc = "connecting"
          /\ server' =
                IF InitializeThrows(connected)
                THEN StartRejected(
                        [server EXCEPT !.starts[i] =
                            [pc |-> "rejected", connected |-> connected,
                             socket |-> 0,
                             error |-> "Server initialization failed"]])
                ELSE [WithSockets(server, Append(server.sockets, "binding"))
                        EXCEPT !.middleware = @ + 1,
                               !.routes = @ + 1,
                               !.errorHandlers = @ + 1,
                               !.handle = Len(server.sockets) + 1,
                               !.listenCalls = @ + 1,
                               !.starts[i] =
                                   [pc |-> "binding", connected |-> connected,
                                    socket |-> Len(server.sockets) + 1,
                                    error |-> ""]]
    /\ UNCHANGED env
    /\ UNCHANGED <<httpVars, mcpVars, poolVars, sharedVars>>

\* listen settles: its callback resolves start(), or the 'error' event
\* rejects it (the port is taken, by this process or another)
ListenSettles ==
    /\ ~server.exit.has
    /\ \E i \in DOMAIN server.starts, bound \in BOOLEAN :
          /\ server.starts[i].pc = "binding"
          /\ bound => ~Listening(server.sockets)
          /\ server' =
                IF bound
                THEN [WithSockets(server,
                        [server.sockets EXCEPT ![server.starts[i].socket] = "listening"])
                        EXCEPT !.starts[i].pc = "resolved"]
                ELSE StartRejected(
                        [WithSockets(server,
                            [server.sockets EXCEPT ![server.starts[i].socket] = "failed"])
                            EXCEPT !.starts[i].pc = "rejected",
                                   !.starts[i].error =
                                       "Failed to start server: listen EADDRINUSE"])
    /\ UNCHANGED env
    /\ UNCHANGED <<httpVars, mcpVars, poolVars, sharedVars>>

\* a request reaches the port: a listening server accepts it
RequestAccepted ==
    /\ ~server.exit.has
    /\ server.listening
    /\ ~server.served
    /\ server' = [server EXCEPT !.served = TRUE]
    /\ UNCHANGED env
    /\ UNCHANGED <<httpVars, mcpVars, poolVars, sharedVars>>

\* a process with any environment, before the server is constructed
InitStart ==
    /\ env \in Environments
    /\ server = NoServer
    /\ HttpIdle
    /\ McpIdle
    /\ PoolIdle /\ SharedIdle

NextStart ==
    \/ Construct
    \/ StartCalled
    \/ ConnectionSettles
    \/ ListenSettles
    \/ RequestAccepted

SpecStart == InitStart /\ [][NextStart]_vars

----------------------------------------------------------------------------
(* Shutdown of the HTTP server, and the signal handlers of the CLI *)

Signals == {"SIGTERM", "SIGINT", "SIGUSR2"}

\* mutant of StopReturnsEarly: a shutdown in progress not looked at
StopReturnsEarlyWhenStopped(handle, isShuttingDown) == handle = 0

\* stop()'s guard `!this.server || this.isShuttingDown`
StopReturnsEarly(handle, isShuttingDown) == handle = 0 \/ isShuttingDown

\* mutant of FlagAfterFailure: the catch of stop() without its reset
FlagAfterFailureKept(isShuttingDown) == isShuttingDown

\* stop()'s catch: this.isShuttingDown = false
FlagAfterFailure(isShuttingDown) == FALSE

\* the CLI's signal handler after `await server.stop()`: process.exit(0), or
\* process.exit(1) from its catch
StopSettled(srv, signal, code) ==
    IF signal \in Signals THEN [srv EXCEPT !.exit = Some(code)] ELSE srv

\* stop() up to its return or to the awaited close of this.server; listen
\* settles within the tick of its call, so that no stop() meets a socket that
\* is still binding
Stop(signal) ==
    /\ server.kind = "constructed"
    /\ ~server.exit.has
    /\ Len(server.stops) < MaxStops
    /\ \A i \in DOMAIN server.starts : server.starts[i].pc # "binding"
    /\ server' =
          IF StopReturnsEarly(server.handle, server.isShuttingDown)
          THEN StopSettled(
                  [server EXCEPT !.stops =
                      Append(@, [pc |-> "resolved", early |-> TRUE,
                                 signal |-> signal, socket |-> 0, error |-> ""])],
                  signal, 0)
          ELSE [server EXCEPT !.isShuttingDown = TRUE,
                              !.closeCalls = @ + 1,
                              !.stops =
                                  Append(@, [pc |-> "closing", early |-> FALSE,
                                             signal |-> signal,
                                             socket |-> server.handle,
                                             error |-> ""])]
    /\ UNCHANGED env
    /\ UNCHANGED <<httpVars, mcpVars, poolVars, sharedVars>>

\* stop() called by a program that uses the class
StopCalled ==
    /\ ~server.cli
    /\ Stop("none")

\* the CLI's handler of SIGTERM, SIGINT and SIGUSR2, registered before start()
SignalReceived ==
    /\ server.cli
    /\ server.starts # <<>>
    /\ \E signal \in Signals : Stop(signal)

\* the callback of server.close: stop() cleans up and resolves, or, for a
\* server that was not running, rejects from its catch
CloseSettles ==
    /\ ~server.exit.has
    /\ \E i \in DOMAIN server.stops :
          /\ server.stops[i].pc = "closing"
          /\ LET k == server.stops[i].socket
                 signal == server.stops[i].signal
             IN  server' =
                    IF server.sockets[k] = "listening"
                    THEN StopSettled(
                            [WithSockets(server,
                                [server.sockets EXCEPT ![k] = "closed"])
                                EXCEPT !.handle = 0,
                                       !.isShuttingDown = FALSE,
                                       !.stops[i].pc = "resolved"],
                            signal, 0)
                    ELSE StopSettled(
                            [server EXCEPT
                                !.isShuttingDown = FlagAfterFailure(@),
                                !.stops[i].pc = "rejected",
                                !.stops[i].error =
                                    "Error during shutdown: Server is not running."],
                            signal, 1)
    /\ UNCHANGED env
    /\ UNCHANGED <<httpVars, mcpVars, poolVars, sharedVars>>

\* the environment of the lifecycle runs: a key and nothing else
DefaultEnvironment ==
    [GEMINI_API_KEY |-> Some(<<"k">>), GEMINI_MAX_RETRIES |-> NoSeq,
     GEMINI_TIMEOUT |-> NoSeq, PORT |-> NoSeq, RATE_LIMIT_WINDOW |-> NoSeq,
     RATE_LIMIT_MAX |-> NoSeq]

\* a program that uses the class, or the CLI's start command
InitLifecycle ==
    /\ env = DefaultEnvironment
    /\ server \in {[NoServer EXCEPT !.cli = cli] : cli \in BOOLEAN}
    /\ HttpIdle
    /\ McpIdle
    /\ PoolIdle /\ SharedIdle

NextLifecycle ==
    \/ Construct
    \/ StartCalled
    \/ ConnectionSettles
    \/ ListenSettles
    \/ RequestAccepted
    \/ StopCalled
    \/ SignalReceived
    \/ CloseSettles

SpecLifecycle == InitLifecycle /\ [][NextLifecycle]_vars

\* getConfig read in any environment
InitConfig ==
    /\ env \in ConfigEnvironments
    /\ server = NoServer
    /\ HttpIdle
    /\ McpIdle
    /\ PoolIdle /\ SharedIdle

NextConfig == Construct

SpecConfig == InitConfig /\ [][NextConfig]_vars

----------------------------------------------------------------------------
(* Vocabulary of the properties *)

\* the provider call failed: it rejected, or resolved without a response
Failed(o) == o.kind \in {"reject", "noresponse"}

\* the provider call resolved within the configured timeout
InTime(o) == o.kind = "resolve" /\ o.duration <= config.timeout

\* the provider call resolved, but later than the configured timeout
Slow(o) == o.kind = "resolve" /\ o.duration > config.timeout

\* withRetry has been entered
RetryEntered == pc \in {"in_flight", "sleeping"} \/ retryResult.kind # "none"

\* withRetry is still running and will invoke, or is invoking, the operation
RetryPending == pc \in {"in_flight", "sleeping"} /\ retryResult.kind = "none"

TerminalMessage == "Max retry attempts reached"

RECURSIVE Pow(_, _)
Pow(b, e) == IF e = 0 THEN 1 ELSE b * Pow(b, e - 1)

----------------------------------------------------------------------------
(* withRetry *)

\* C1: for every N >= 0 and maxAttempts M > N, when the operation fails on its
\* first N invocations withRetry goes on to invocation N+1, and when that one
\* succeeds within the timeout withRetry returns its value, the operation
\* having been invoked exactly N+1 times.
C1_SuccessAfterNFailures ==
    \A N \in 0..MaxRetriesBound :
        ( /\ RetryEntered
          /\ config.maxRetries > N
          /\ Len(history) >= N
          /\ \A i \in 1..N : Failed(history[i]) )
        => /\ Len(history) = N => RetryPending
           /\ (Len(history) = N + 1 /\ InTime(history[N + 1]))
                => /\ retryResult.kind = "returned"
                   /\ retryResult.text = history[N + 1].text
                   /\ invocations = N + 1
                   /\ pc = "done"

C1_Witness ==
    /\ config.maxRetries = 3
    /\ Len(history) = 3
    /\ Failed(history[1]) /\ Failed(history[2]) /\ InTime(history[3])
    /\ retryResult.kind = "returned"
    /\ retryResult.text = "blue"
    /\ invocations = 3

\* C2: with maxAttempts = 3 and an operation that fails every time, withRetry
\* raises the terminal error after exactly 3 invocations: it never raises
\* after fewer, and never invokes the operation a fourth time.
C2_ThreeAttemptsThenRaise ==
    config.maxRetries = 3 =>
        /\ invocations <= 3
        /\ retryResult.kind = "thrown" =>
                /\ invocations = 3
                /\ Len(history) = 3
                /\ retryResult.error.message = TerminalMessage
        /\ (Len(history) = 3 /\ \A i \in 1..3 : Failed(history[i]))
                => retryResult.kind = "thrown" /\ pc = "done"
        /\ (RetryEntered /\ Len(history) < 3
                /\ \A i \in 1..Len(history) : Failed(history[i]))
                => RetryPending

C2_Witness ==
    /\ config.maxRetries = 3
    /\ Len(history) = 3
    /\ \A i \in 1..3 : Failed(history[i])
    /\ retryResult.kind = "thrown"
    /\ invocations = 3

\* the backoff part of the i-th inter-attempt sleep
Backoff(i) == Min(InitialDelayMs * Pow(BackoffMultiplier, i - 1), MaxDelayMs)

\* C3: the i-th inter-attempt sleep lies within
\* [initialDelay*multiplier^(i-1), initialDelay*multiplier^(i-1) + 200 ms],
\* the backoff part capped at maxDelay.
C3_SleepWithinBackoffWindow ==
    pc = "sleeping" =>
        /\ sleepCount >= 1
        /\ sleepMs >= Backoff(sleepCount)
        /\ sleepMs <= Backoff(sleepCount) + JitterRange

\* the fifth sleep: 1000 * 2^4 = 16000 is capped at 10000
C3_Witness ==
    /\ pc = "sleeping"
    /\ sleepCount = 5
    /\ sleepMs = MaxDelayMs + JitterRange - 1

\* C4: with maxAttempts = 1 the operation runs exactly once: a success is
\* returned, a failure raises the terminal error at once, with no retry and
\* no backoff sleep.
C4_SingleAttempt ==
    (config.maxRetries = 1 /\ RetryEntered) =>
        /\ invocations = 1
        /\ sleepCount = 0
        /\ pc # "sleeping"
        /\ Len(history) = 1 =>
              /\ pc = "done"
              /\ InTime(history[1]) =>
                    /\ retryResult.kind = "returned"
                    /\ retryResult.text = history[1].text
              /\ ~InTime(history[1]) =>
                    /\ retryResult.kind = "thrown"
                    /\ retryResult.error.message = TerminalMessage

C4_Witness ==
    /\ config.maxRetries = 1
    /\ Len(history) = 1
    /\ Failed(history[1])
    /\ retryResult.kind = "thrown"
    /\ invocations = 1
    /\ sleepCount = 0

\* the number of invocations so far that did not succeed within the timeout
RECURSIVE Unsuccessful(_)
Unsuccessful(h) ==
    IF h = <<>> THEN 0
    ELSE (IF InTime(h[1]) THEN 0 ELSE 1) + Unsuccessful(Tail(h))

\* C5: an attempt whose operation resolves later than the timeout is a failed
\* attempt: its result is never returned, it consumes one attempt, and the
\* operation is invoked again if attempts remain (otherwise the terminal
\* error is raised).  The slow call runs to completion: its duration is only
\* measured once it has resolved.
C5_SlowSuccessIsFailure ==
    /\ retryResult.kind = "returned" =>
          /\ InTime(history[retryResult.call])
          /\ retryResult.text = history[retryResult.call].text
    /\ (response.status = 200 /\ variant = "current") =>
          \E i \in 1..Len(history) :
              InTime(history[i]) /\ response.body.answer = history[i].text
    /\ (variant = "current" /\ RetryEntered) =>
          attempts = Unsuccessful(history)
    /\ (variant = "current" /\ Len(history) >= 1 /\ Slow(history[Len(history)])) =>
          IF attempts < config.maxRetries
          THEN RetryPending
          ELSE /\ retryResult.kind = "thrown"
               /\ retryResult.error.cause.val.message =
                      "Operation timed out after "
                          \o ToString(history[Len(history)].duration) \o "ms"

\* a slow success, then a retry that succeeds in time
C5_Witness ==
    /\ Len(history) = 2
    /\ Slow(history[1])
    /\ InTime(history[2])
    /\ retryResult.kind = "returned"
    /\ retryResult.call = 2
    /\ attempts = 1

----------------------------------------------------------------------------
(* The analyze_image handler *)

\* the failure the provider reported on an invocation that failed
ProviderMessage(o) ==
    IF o.kind = "reject" THEN o.message
    ELSE "No response received from Gemini API"

\* C6: when every attempt of the model call fails, the failure envelope
\* carries the failure of the final attempt as its details; the cause is not
\* replaced by a wrapper's generic message.
C6_DetailsCarryLastProviderFailure ==
    ( /\ variant = "current"
      /\ pc = "done"
      /\ retryResult.kind = "thrown"
      /\ \A i \in 1..Len(history) : Failed(history[i]) )
    => /\ response.status = 500
       /\ response.body.details = Some(ProviderMessage(history[Len(history)]))

\* the validation rules of the current server, each on its own, and the
\* message each violation is reported with
ImageRules(image) ==
    (IF ~Truthy(image) THEN <<"Image is required">> ELSE <<>>)
        \o (IF Truthy(image) /\ ~MatchesDataUrl(image.val)
            THEN <<"Invalid image format">> ELSE <<>>)

QuestionRules(question) ==
    (IF ~Truthy(question) \/ \A i \in 1..Len(question.val) :
                                  question.val[i] \in WhiteSpace
     THEN <<"Question is required">> ELSE <<>>)
        \o (IF question.has /\ Len(question.val) > MaxQuestionLen
            THEN <<"Question too long">> ELSE <<>>)

ContextRules(context) ==
    IF context.has /\ Len(context.val) > MaxContextLen
    THEN <<"Context too long">> ELSE <<>>

RuleViolations(in) ==
    ImageRules(in.image) \o QuestionRules(in.question) \o ContextRules(in.context)

\* C7: validation does not short-circuit: the 400 response of a request that
\* violates several rules at once lists every violated rule.
C7_EveryViolatedRuleListed ==
    ( /\ variant = "current"
      /\ pc = "done"
      /\ RuleViolations(Body(input)) # <<>> )
    => /\ response.status = 400
       /\ response.body.details = Some(Join(RuleViolations(Body(input))))

\* C8: a request that fails validation never reaches the image layer or the
\* model: analyzeImage and the provider call are invoked zero times and the
\* response is the validation failure.  On the legacy server the rules are
\* that question and image are present.
C8_InvalidNeverReachesModel ==
    LET invalid == IF variant = "current"
                   THEN RuleViolations(Body(input)) # <<>>
                   ELSE \/ ~Truthy(Body(input).question)
                        \/ ~Truthy(Body(input).image)
    IN  invalid =>
          /\ analyzeCalls = 0
          /\ invocations = 0
          /\ ~modelRequest.sent
          /\ pc # "received" =>
                /\ pc = "done"
                /\ response.sent = 1
                /\ response.status = 400
                /\ variant = "current" => response.body.code = "VALIDATION_ERROR"

\* an empty question and an image that is no data URL, after the handler ran
C8_Witness ==
    /\ variant = "current"
    /\ pc = "done"
    /\ Body(input).question = Some(<<>>)
    /\ Body(input).image = Some(NotBase64)
    /\ response.status = 400
    /\ response.body.details = Some("Invalid image format; Question is required")
    /\ analyzeCalls = 0

C10_OutOfRangeTokensRejected ==
    ( /\ variant = "current"
      /\ RuleViolations(Body(input)) = <<>>
      /\ processImageData(Body(input).image).ok
      /\ input.maxTokens.has
      /\ input.maxTokens.val \notin SchemaMinTokens..SchemaMaxTokens )
    => /\ ~modelRequest.sent
       /\ pc = "done" => response.status = 400

----------------------------------------------------------------------------
(* Inline images *)

\* the image types of the requests: those the server names, and one more
AnyImageTypes == ServerImageTypes \cup {GIF}

\* s without a leading data:image/<type>;base64, of any type
StripAnyDataUrl(s) ==
    IF \E t \in AnyImageTypes : StartsWith(s, DataUrlPrefix(t))
    THEN LET t == CHOOSE t \in AnyImageTypes : StartsWith(s, DataUrlPrefix(t))
         IN  SubSeq(s, Len(DataUrlPrefix(t)) + 1, Len(s))
    ELSE s

\* the inline images the claim C11 calls valid
InlineImageValid(image) ==
    image.has /\ MatchesBase64(StripAnyDataUrl(image.val))

\* C11: the server's validator and processImageData accept the same inline
\* images: exactly the strings that, after an optional data:image/<type>;base64,
\* prefix of any image type is removed, are base64 characters with = padding.
C11_SameImagesAccepted ==
    validation.done =>
        LET image == Body(input).image
        IN  /\ validation.image = <<>> <=> InlineImageValid(image)
            /\ processImageData(image).ok <=> InlineImageValid(image)

\* the mime type a data URL declares, image/jpeg when it declares none
DeclaredMimeType(s) ==
    IF StartsWith(s, DataUrlPrefix(PNG)) THEN "image/png"
    ELSE IF StartsWith(s, DataUrlPrefix(GIF)) THEN "image/gif"
    ELSE IF StartsWith(s, DataUrlPrefix(JPG)) THEN "image/jpg"
    ELSE "image/jpeg"

\* C12: the mime type sent to the model with an inline image is the type its
\* data-URL prefix declares, and image/jpeg only when it declares none.
C12_DeclaredMimeTypeSent ==
    (variant = "current" /\ modelRequest.sent)
    => modelRequest.inlineData.mimeType = DeclaredMimeType(Body(input).image.val)

----------------------------------------------------------------------------
(* Responses *)

\* the request violates a rule of the handler that serves it
Invalid ==
    IF variant = "current"
    THEN RuleViolations(Body(input)) # <<>>
    ELSE ~Truthy(Body(input).question) \/ ~Truthy(Body(input).image)

\* the analysis succeeded: the last provider call resolved, in time on the
\* current server
Analysed ==
    /\ history # <<>>
    /\ LET last == history[Len(history)]
       IN  IF variant = "current" THEN InTime(last) ELSE last.kind = "resolve"

\* C17: the status is 400 for every validation failure, 500 for every failure
\* of image processing or of the provider, 200 only for a successful analysis,
\* and a request is answered exactly once, when its handling ends.
C17_StatusByOutcome ==
    /\ pc # "done" => response.sent = 0
    /\ pc = "done" =>
          /\ response.sent = 1
          /\ response.status = (IF Invalid THEN 400
                                ELSE IF Analysed THEN 200 ELSE 500)
          /\ response.body.kind = (IF response.status = 200 THEN "result"
                                   ELSE "error")

\* all three statuses have been sent: here the 500 of a provider that failed
\* on every attempt of the default policy
C17_Witness ==
    /\ variant = "current"
    /\ pc = "done"
    /\ ~Invalid
    /\ Len(history) = DefaultMaxRetries
    /\ response.sent = 1
    /\ response.status = 500

\* the kinds of failure the HTTP server can meet, in the taxonomy of C18
FailureKinds == {"ValidationError", "ImageAcquisitionError.decode-failure",
                 "ProviderError.timeout", "ProviderError.unknown"}

\* the kind of the failure that ended the request
FailureKind ==
    IF Invalid THEN "ValidationError"
    ELSE IF history = <<>> THEN "ImageAcquisitionError.decode-failure"
    ELSE IF Slow(history[Len(history)]) THEN "ProviderError.timeout"
    ELSE "ProviderError.unknown"

\* the code the current server puts in the envelope of a failure of a kind
CodeGiven(kind) ==
    IF kind = "ValidationError"
    THEN ValidationEnvelope(<<"Image is required">>).code
    ELSE IF kind = "ImageAcquisitionError.decode-failure"
    THEN ErrorEnvelope(AnalyzeFailure(processImageData(Some(NotBase64)).error)).code
    ELSE IF kind = "ProviderError.timeout"
    THEN ErrorEnvelope(AnalyzeFailure(MaxRetryError(
             TimeoutError(DefaultTimeout + 1)))).code
    ELSE ErrorEnvelope(AnalyzeFailure(MaxRetryError(
             PlainError("quota exceeded")))).code

\* C18: a failure is classified into exactly one kind of the taxonomy and its
\* envelope carries the code of that kind: the code of a failed request is the
\* code of its kind and of no other kind.
C18_CodeNamesTheKind ==
    (variant = "current" /\ pc = "done" /\ response.status # 200)
    => /\ response.body.code = CodeGiven(FailureKind)
       /\ \A k \in FailureKinds \ {FailureKind} :
              response.body.code # CodeGiven(k)

\* C19: a successful analyzeImage result carries the confidence 0.9 and, as
\* its answer, the text of the provider call that succeeded, whatever the
\* question, the image, the context and the number of retries were.
C19_PlaceholderConfidence ==
    response.status = 200 =>
        /\ response.body.confidence = "0.9"
        /\ history # <<>>
        /\ history[Len(history)].kind = "resolve"
        /\ response.body.answer = history[Len(history)].text

\* the stub answers "red" on the third call, after two failures
C19_Witness ==
    /\ variant = "current"
    /\ Len(history) = 3
    /\ Failed(history[1])
    /\ history[3] = [kind |-> "resolve", text |-> "red", duration |-> 0]
    /\ response.status = 200
    /\ response.body.answer = "red"
    /\ response.body.confidence = "0.9"

----------------------------------------------------------------------------
(* The MCP tools *)

\* analyze_image_file got past its argument checks
FileCallRan ==
    /\ call.name = "analyze_image_file"
    /\ toolPc \notin {"idle", "received"}
    /\ ~NotAString(call.question)
    /\ ~NotAString(call.imagePath)

\* C13: analyze_image_file checks that the file exists before any read.  A
\* path that does not exist fails with the not-found error, the file is never
\* read and the model never invoked; a read that fails after the existence
\* check succeeded fails with the read-failure error, which carries the
\* message of the underlying I/O error.
C13_ExistenceBeforeRead ==
    FileCallRan =>
        /\ events # <<>> /\ events[1] = "existsSync"
        /\ \A i \in 2..Len(events) : events[i] # "existsSync"
        /\ ~disk.exists =>
              /\ events = <<"existsSync">>
              /\ ~toolRequest.sent
              /\ toolPc = "done"
              /\ toolResult = [kind |-> "result", isError |-> TRUE,
                               text |-> "Error: Image file not found: "
                                            \o ToStr(call.imagePath.val)]
        /\ (disk.exists /\ ~disk.read.ok) =>
              /\ events = <<"existsSync", "readFileSync">>
              /\ ~toolRequest.sent
              /\ toolPc = "done"
              /\ toolResult = [kind |-> "result", isError |-> TRUE,
                               text |-> "Error: Failed to read image file: "
                                            \o disk.read.message]

\* a.png does not exist: not found, and nothing read
C13_Witness ==
    /\ call.name = "analyze_image_file"
    /\ call.imagePath = JsString(PathPng)
    /\ ~disk.exists
    /\ events = <<"existsSync">>
    /\ toolResult.kind = "result"
    /\ toolResult.isError
    /\ toolResult.text = "Error: Image file not found: a.png"

\* the mime type C14 gives each path of the bounds
ExpectedMimeType ==
    [f \in FilePaths |->
        IF f \in {PathJpg, PathJpegUpper} THEN "image/jpeg"
        ELSE IF f \in {PathPng, PathPngMixed} THEN "image/png"
        ELSE IF f = PathGif THEN "image/gif"
        ELSE IF f = PathWebpUpper THEN "image/webp"
        ELSE "image/jpeg"]

\* C14: getMimeType maps the extension of a path, whatever its case, .jpg and
\* .jpeg to image/jpeg, .png to image/png, .gif to image/gif, .webp to
\* image/webp, and any other or missing extension to image/jpeg; the result
\* is the mime type sent to the model with a file image.
C14_MimeTypeByExtension ==
    (call.name = "analyze_image_file" /\ toolRequest.sent)
    => /\ toolRequest.mimeType = ExpectedMimeType[call.imagePath.val]
       /\ toolRequest.mimeType
              \in {"image/jpeg", "image/png", "image/gif", "image/webp"}

\* a.PnG is sent as image/png
C14_Witness ==
    /\ call.imagePath = JsString(PathPngMixed)
    /\ toolRequest.sent
    /\ toolRequest.mimeType = "image/png"

\* takeWebsiteScreenshot is running, past the launch of the browser
Capturing ==
    toolPc \in {"newPage", "setViewport", "setUserAgent", "goto", "wait",
                "screenshot"}

\* takeWebsiteScreenshot has returned or thrown
CaptureEnded ==
    call.name = "analyze_website" /\ toolPc \in {"generate", "done"}

\* C15: a browser that takeWebsiteScreenshot launched is closed exactly once
\* before the call returns or throws, whichever step failed, and none is left
\* open after the call.
C15_BrowserClosedOnce ==
    /\ browser.launched <= 1
    /\ browser.closeCalls <= browser.launched
    /\ Capturing =>
          browser.launched = 1 /\ browser.open = 1 /\ browser.closeCalls = 0
    /\ CaptureEnded =>
          browser.open = 0 /\ browser.closeCalls = browser.launched

\* the navigation timed out; the browser was closed before the call threw
C15_Witness ==
    /\ CaptureEnded
    /\ shot.error = Some("Navigation timeout of 30000 ms exceeded")
    /\ events = <<"launch", "newPage", "setViewport", "setUserAgent", "goto",
                  "close">>
    /\ browser = [launched |-> 1, open |-> 0, closeCalls |-> 1]
    /\ toolResult.isError

\* the operations of an analyze_website call that reaches the model
WebsiteSequence(waitFor) ==
    <<"launch", "newPage", "setViewport", "setUserAgent", "goto">>
        \o (IF waitFor > 0 THEN <<"wait">> ELSE <<>>)
        \o <<"screenshot", "close", "generateContent">>

\* C16: analyze_website launches the browser, navigates, captures the PNG and
\* terminates the browser, and only then invokes the provider, with the mime
\* type image/png; the browser is terminated whether the provider call then
\* succeeds or fails, and the provider is invoked only after a capture that
\* succeeded.
C16_CaptureThenProvider ==
    call.name = "analyze_website" =>
        /\ toolRequest.sent <=> (Len(events) > 0
                                   /\ events[Len(events)] = "generateContent")
        /\ toolRequest.sent =>
              /\ events = WebsiteSequence(WaitFor(call))
              /\ shot.capture.has
              /\ ~shot.error.has
              /\ toolRequest.mimeType = "image/png"
              /\ toolRequest.data = toBase64(shot.capture.val)
              /\ browser = [launched |-> 1, open |-> 0, closeCalls |-> 1]

\* the provider failed after the capture; the browser had been terminated
C16_Witness ==
    /\ call.name = "analyze_website"
    /\ toolPc = "done"
    /\ toolRequest.sent
    /\ toolRequest.mimeType = "image/png"
    /\ toolResult = [kind |-> "result", isError |-> TRUE,
                     text |-> "Error: quota exceeded"]
    /\ browser.open = 0

\* C20: the image handed to the model is never empty, whether it came inline,
\* from a file or from a screenshot.
C20_NoEmptyImageForwarded ==
    /\ toolRequest.sent => toolRequest.sizeBytes > 0 /\ toolRequest.data # <<>>
    /\ (variant = "current" /\ modelRequest.sent)
           => modelRequest.inlineData.data # <<>>

----------------------------------------------------------------------------
(* Image processing and the retry executor *)

\* the request passes validation, and its image payload is not base64
MalformedImage ==
    /\ variant = "current"
    /\ RuleViolations(Body(input)) = <<>>
    /\ ~MatchesBase64(StripDataUrl(Body(input).image.val))

\* C22: a failure of the image processing inside analyzeImage is not
\* retried: the model is invoked zero times, no backoff sleep occurs and the
\* failure is raised after the single processing attempt.
C22_ImageFailureNotRetried ==
    (MalformedImage /\ pc # "received")
    => /\ pc = "done"
       /\ analyzeCalls = 1
       /\ invocations = 0
       /\ sleepCount = 0
       /\ attempts = 0
       /\ retryResult = NoRetryResult
       /\ ~modelRequest.sent
       /\ response.status = 500
       /\ response.body.details = Some("Failed to process image data")

\* data:image/png;base64,!! fails in processImageData
C22_Witness ==
    /\ MalformedImage
    /\ Body(input).image = Some(DataUrlPrefix(PNG) \o <<"!","!">>)
    /\ pc = "done"
    /\ invocations = 0
    /\ response.status = 500

\* C24: the backoff delay of withRetry never decreases from one attempt to
\* the next and is never greater than maxDelayMs.
C24_DelayMonotoneAndCapped ==
    /\ [](delay <= MaxDelayMs)
    /\ [][delay' >= delay]_vars

\* the delay has grown from 1000 to the cap, and a further attempt kept it
C24_Witness ==
    /\ delay = MaxDelayMs
    /\ sleepCount = 5
    /\ pc = "in_flight"

\* C29: withRetry sleeps only between attempts: the failure that exhausts
\* the attempts raises the terminal error with no sleep, and no sleep follows
\* a success, so that a finished run has slept once less than it invoked.
C29_SleepsBetweenAttempts ==
    RetryEntered =>
        /\ pc = "sleeping" => sleepCount = invocations
        /\ pc # "sleeping" => sleepCount = invocations - 1
        /\ retryResult.kind # "none" => pc = "done" /\ sleepMs = 0

\* three invocations, two sleeps, then the terminal error
C29_Witness ==
    /\ config.maxRetries = 3
    /\ retryResult.kind = "thrown"
    /\ invocations = 3
    /\ sleepCount = 2

\* C30: whatever maxRetries is, withRetry invokes the operation at least
\* once and at most max(1, maxRetries) times; with maxRetries <= 0 an
\* operation that fails is invoked exactly once and the terminal error raised.
C30_AtLeastOneAttempt ==
    RetryEntered =>
        /\ invocations >= 1
        /\ invocations <= (IF config.maxRetries > 1 THEN config.maxRetries ELSE 1)
        /\ (config.maxRetries <= 0 /\ history # <<>> /\ ~InTime(history[1]))
              => /\ pc = "done"
                 /\ invocations = 1
                 /\ retryResult.kind = "thrown"
                 /\ retryResult.error.message = TerminalMessage

\* maxRetries = -1: one invocation, then the terminal error
C30_Witness ==
    /\ config.maxRetries = -1
    /\ invocations = 1
    /\ history # <<>>
    /\ Failed(history[1])
    /\ retryResult.kind = "thrown"
    /\ retryResult.error.message = TerminalMessage

\* C31: withRetry terminates when every invocation of the operation
\* terminates and maxRetries is finite: the failed attempts never exceed
\* max(1, maxRetries), and every run ends for good with a returned result or
\* with the terminal 'Max retry attempts reached' error.
C31_WithRetryTerminates ==
    /\ [](attempts <= Max({1, config.maxRetries}))
    /\ [](retryResult.kind = "thrown"
            => retryResult.error.message = TerminalMessage)
    /\ <>[](/\ pc = "done"
            /\ retryResult.kind \in {"returned", "thrown"})

\* the longest run: every attempt failed, then the terminal error
C31_Witness ==
    /\ config.maxRetries = MaxRetriesBound
    /\ attempts = MaxRetriesBound
    /\ pc = "done"
    /\ retryResult.kind = "thrown"

----------------------------------------------------------------------------
(* The steps of a screenshot *)

\* the browser steps of a call in their order, up to the capture
StepOrder(waitFor) ==
    <<"launch", "newPage", "setViewport", "setUserAgent", "goto">>
        \o (IF waitFor > 0 THEN <<"wait">> ELSE <<>>)
        \o <<"screenshot">>

\* the browser steps made so far: the events before close
StepsMade ==
    SelectSeq(events, LAMBDA e : e \notin {"close", "generateContent"})

\* C28: within a takeWebsiteScreenshot call the steps come in the fixed
\* order open page, set viewport (default 1280x720), set user agent, navigate
\* (network idle, timeout 30000 ms), wait of waitFor (default 3000) ms, PNG
\* capture; a step that fails prevents all later steps, and the capture is
\* never taken without a completed navigation and wait.
C28_StepsInOrder ==
    call.name = "analyze_website" =>
        LET order == StepOrder(IF call.waitFor.has THEN call.waitFor.val ELSE 3000)
            n == Len(StepsMade)
        IN  /\ n <= Len(order)
            /\ StepsMade = SubSeq(order, 1, n)
            /\ \A i \in 1..Len(events) :
                  events[i] = "close" => SubSeq(events, 1, i - 1) = StepsMade
            /\ shot.error.has =>
                  /\ n < Len(order) \/ ~shot.capture.has
                  /\ events = Append(StepsMade, "close")
            /\ shot.viewport.has =>
                  /\ shot.viewport.width =
                        (IF call.viewportWidth.has THEN call.viewportWidth.val
                         ELSE 1280)
                  /\ shot.viewport.height =
                        (IF call.viewportHeight.has THEN call.viewportHeight.val
                         ELSE 720)
            /\ shot.navigation.has =>
                  /\ shot.navigation.waitUntil = "networkidle0"
                  /\ shot.navigation.timeout = 30000
            /\ shot.screenshot.has =>
                  /\ shot.screenshot.type = "png"
                  /\ shot.navigation.has
                  /\ shot.waited.has \/ (call.waitFor.has /\ call.waitFor.val <= 0)
                  /\ shot.waited.has =>
                        shot.waited.val = (IF call.waitFor.has
                                           THEN call.waitFor.val ELSE 3000)

\* a call with no optional argument captured the page: all steps, with the
\* default viewport and the default wait
C28_Witness ==
    /\ call.name = "analyze_website"
    /\ ~call.waitFor.has
    /\ ~call.viewportWidth.has
    /\ ~call.viewportHeight.has
    /\ shot.capture.has
    /\ StepsMade = <<"launch", "newPage", "setViewport", "setUserAgent", "goto",
                     "wait", "screenshot">>
    /\ shot.viewport = [has |-> TRUE, width |-> 1280, height |-> 720]
    /\ shot.waited = Some(3000)

----------------------------------------------------------------------------
(* Concurrent screenshots *)

\* the calls that hold a browser: launched, and not yet closed
Holding(c) ==
    shots[c].pc \in {"newPage", "setViewport", "setUserAgent", "goto", "wait",
                     "screenshot", "close"}

\* C27: every screenshot call launches a browser of its own, which is never
\* pooled or reused and is closed only by the call that launched it; nothing
\* caps the launches, so that k calls in flight can hold k open browsers.
C27_OwnBrowserPerCall ==
    /\ \A c \in DOMAIN shots :
          shots[c].browser # 0 =>
              /\ shots[c].browser \in DOMAIN processes
              /\ processes[shots[c].browser].launchedBy = c
    /\ \A c, d \in DOMAIN shots :
          (c # d /\ shots[c].browser # 0) => shots[c].browser # shots[d].browser
    /\ \A b \in DOMAIN processes :
          /\ processes[b].closeCalls <= 1
          /\ processes[b].closedBy \in {0, processes[b].launchedBy}
          /\ processes[b].open <=> Holding(processes[b].launchedBy)
    /\ Len(processes) = Cardinality({c \in DOMAIN shots : shots[c].browser # 0})

\* all calls navigate at the same time, each with its own open browser
C27_Witness ==
    /\ DOMAIN shots = 1..MaxCalls
    /\ \A c \in DOMAIN shots : shots[c].pc = "goto"
    /\ Cardinality({b \in DOMAIN processes : processes[b].open}) = MaxCalls

----------------------------------------------------------------------------
(* Concurrent requests *)

\* C23: requests that interleave on one GeminiService share no mutable
\* state: each withRetry call has its own attempt counter and its own delay,
\* which count and follow the failures of its own request only, and the
\* config and the retry policy of the service are never written.
C23_NoSharedRetryState ==
    /\ [](\A r \in DOMAIN reqs :
            reqs[r].frame # 0 =>
              LET f == frames[reqs[r].frame]
                  slept == Len(reqs[r].delays)
              IN  /\ \A q \in DOMAIN reqs :
                        q # r => reqs[q].frame # reqs[r].frame
                  /\ f.attempts = reqs[r].failures
                  /\ reqs[r].delays = [i \in 1..slept |-> Backoff(i)]
                  /\ f.delay = Backoff(IF reqs[r].pc = "sleeping"
                                       THEN slept ELSE slept + 1)
                  /\ reqs[r].invocations <= service.retryConfig.maxRetries
                  /\ reqs[r].result = "thrown"
                        => reqs[r].failures = service.retryConfig.maxRetries)
    /\ [][service' = service]_vars

\* one request has failed twice and sleeps, the other has just made its
\* first call with a fresh counter and the initial delay
C23_Witness ==
    /\ Len(reqs) >= 2
    /\ reqs[1].pc = "sleeping"
    /\ reqs[1].failures = 2
    /\ frames[reqs[1].frame] = [delay |-> 2000, attempts |-> 2]
    /\ reqs[2].pc = "in_flight"
    /\ reqs[2].invocations = 1
    /\ frames[reqs[2].frame] = [delay |-> 1000, attempts |-> 0]

----------------------------------------------------------------------------
(* Startup *)

\* the start() calls that got as far as listen
Listened == {i \in DOMAIN server.starts :
                server.starts[i].pc \in {"binding", "resolved"}
                \/ server.starts[i].error = "Failed to start server: listen EADDRINUSE"}

\* C21: a failure of the configuration or of the startup is fatal: when
\* getConfig throws ConfigurationError or the connection test fails during
\* start(), listen is never called and no request is accepted; listen is
\* called only after the initialization has succeeded.
C21_ListenOnlyAfterInitialization ==
    /\ server.kind = "threw" =>
          /\ ~getConfig(env).ok
          /\ server.starts = <<>>
    /\ server.kind # "constructed" =>
          /\ server.listenCalls = 0
          /\ ~server.listening
          /\ ~server.served
    /\ server.listenCalls = Cardinality(Listened)
    /\ \A i \in DOMAIN server.starts :
          /\ i \in Listened => server.starts[i].connected
          /\ server.starts[i].error = "Server initialization failed"
                => i \notin Listened /\ ~server.starts[i].connected
    /\ server.listenCalls > 0 =>
          server.middleware > 0 /\ server.routes > 0 /\ server.errorHandlers > 0
    /\ server.served => server.listening
    /\ server.listening => server.listenCalls > 0

\* the connection test failed: start() rejected and nothing listens
C21_Witness ==
    /\ server.kind = "constructed"
    /\ Len(server.starts) = 1
    /\ server.starts[1].pc = "rejected"
    /\ server.starts[1].error = "Server initialization failed"
    /\ server.listenCalls = 0
    /\ ~server.listening

\* C25: the retry policy in force has maxAttempts >= 1: whatever
\* GEMINI_MAX_RETRIES is, a GeminiService built from a configuration that
\* getConfig accepted has retryConfig.maxRetries of at least 1.
C25_AtLeastOneAttemptConfigured ==
    server.kind = "constructed" => server.service.retryConfig.maxRetries >= 1

----------------------------------------------------------------------------
(* The results of the tools *)

KnownTools == {"analyze_image_file", "analyze_website"}

\* the messages of the failures a call of a known tool can meet
ToolFailures ==
    {"Question is required and must be a string",
     "Image path is required and must be a string",
     "URL is required and must be a string",
     "Invalid URL format",
     "Cannot read properties of undefined (reading 'text')"}
        \cup {"Image file not found: " \o ToStr(f) : f \in FilePaths}
        \cup {"Failed to read image file: " \o m : m \in ReadErrors}
        \cup UNION {StepFailures(st) : st \in {"launch", "newPage", "goto", "screenshot"}}
        \cup ProviderFailures

\* the call ended well: the model was asked and its answer is the text
ToolSucceeded == toolRequest.sent /\ toolResult.text \in Answers

\* C32: the tool-call handler never throws for analyze_image_file and
\* analyze_website: every failure (invalid input, missing file, read error,
\* invalid URL, browser error, provider error) is returned as a result with
\* isError true and a text message, a success carries no isError, and only
\* an unknown tool name makes the handler throw.
C32_FailuresAreResults ==
    /\ toolResult.kind = "thrown" <=>
          (toolPc = "done" /\ call.name \notin KnownTools)
    /\ (toolPc = "done" /\ call.name \in KnownTools) =>
          /\ toolResult.kind = "result"
          /\ toolResult.isError <=> ~ToolSucceeded
          /\ toolResult.isError =>
                toolResult.text \in {"Error: " \o m : m \in ToolFailures}
    /\ toolPc # "done" => toolResult.kind = "none"

\* a read error of a file that exists, returned as a result
C32_Witness ==
    /\ call.name = "analyze_image_file"
    /\ toolPc = "done"
    /\ disk.exists
    /\ events = <<"existsSync", "readFileSync">>
    /\ toolResult = [kind |-> "result", isError |-> TRUE,
                     text |-> "Error: Failed to read image file: EACCES: permission denied, open"]

\* the arguments analyze_website accepts: a question and a url that are
\* non-empty strings, the url one that `new URL` parses
WebsiteInputValid ==
    /\ call.question.type = "string" /\ call.question.val # <<>>
    /\ call.url.type = "string" /\ call.url.val = UrlHttps

\* C33: in analyze_website no browser is launched and the model is not
\* invoked unless the question is a non-empty string and the url a non-empty
\* string that parses as a URL: invalid input is rejected before any I/O.
C33_WebsiteInputCheckedFirst ==
    call.name = "analyze_website" =>
        /\ (events # <<>> \/ browser.launched > 0 \/ toolRequest.sent
                \/ toolPc \notin {"received", "done"})
              => WebsiteInputValid
        /\ (toolPc = "done" /\ ~WebsiteInputValid) =>
              /\ events = <<>>
              /\ browser = NoBrowser
              /\ shot = NoShot
              /\ ~toolRequest.sent
              /\ toolResult.kind = "result" /\ toolResult.isError
        /\ (toolPc = "done" /\ WebsiteInputValid) => events # <<>>

\* a url with a scheme and no host: refused, and nothing was launched
C33_Witness ==
    /\ call.name = "analyze_website"
    /\ call.question = JsString(<<"a">>)
    /\ call.url = JsString(<<"h","t","t","p","s",":","/","/">>)
    /\ toolPc = "done"
    /\ events = <<>>
    /\ browser.launched = 0
    /\ toolResult = [kind |-> "result", isError |-> TRUE,
                     text |-> "Error: Invalid URL format"]

----------------------------------------------------------------------------
(* The configuration *)

\* the integer each setting of the bounds stands for, if any
IntegerRead(setting, default) ==
    IF setting = Some(<<"0">>) THEN 0
    ELSE IF setting = Some(<<"-","1">>) THEN 0 - 1
    ELSE IF setting = Some(<<"1">>) THEN 1
    ELSE IF setting = Some(<<"3">>) THEN 3
    ELSE IF setting = Some(<<"5","x">>) THEN 5
    ELSE IF setting = Some(<<"8","0">>) THEN 80
    ELSE default

ApiKeyMissing == env.GEMINI_API_KEY \in {NoSeq, Some(<<>>)}

----------------------------------------------------------------------------
(* The lifecycle of the HTTP server *)

AlreadyRunningMessage == "Server is already running"

\* a step in which start() is called; one in which stop() is called
StartStep == Len(server'.starts) = Len(server.starts) + 1
StopStep == Len(server'.stops) = Len(server.stops) + 1

\* the stop() calls whose close is awaited
Closing == {i \in DOMAIN server.stops : server.stops[i].pc = "closing"}

\* C34: the guards of the lifecycle: start() on an instance whose server
\* listens rejects with 'Server is already running' and leaves the server as it
\* was; stop() on an instance that is not running, or whose shutdown is in
\* progress, returns without closing anything or changing state; after a
\* successful stop() the handle is null and isShuttingDown is false.
C34_LifecycleGuards ==
    [][/\ (StartStep /\ server.handle # 0
              /\ server.sockets[server.handle] = "listening")
          => server' = [server EXCEPT !.starts =
                           Append(@, [pc |-> "rejected", connected |-> FALSE,
                                      socket |-> 0,
                                      error |-> AlreadyRunningMessage])]
       /\ (StopStep /\ (server.handle = 0 \/ server.isShuttingDown))
          => /\ [server' EXCEPT !.stops = server.stops, !.exit = server.exit]
                  = server
             /\ server'.stops[Len(server'.stops)].pc = "resolved"
       /\ \A i \in Closing :
             server'.stops[i].pc = "resolved"
             => server'.handle = 0 /\ ~server'.isShuttingDown
      ]_vars

\* a second start() refused while the server listens, and a second stop()
\* that returned while the first awaits the close
C34_Witness ==
    /\ server.listening
    /\ \E i \in DOMAIN server.starts :
          server.starts[i].error = AlreadyRunningMessage
    /\ Len(server.stops) = 2
    /\ server.stops[1].pc = "closing"
    /\ server.stops[2].pc = "resolved" /\ server.stops[2].early
    /\ server.closeCalls = 1

\* the listen calls whose socket has not been closed
Outstanding == {k \in DOMAIN server.sockets : server.sockets[k] # "closed"}

\* C35: at most one listen() is issued per VQAMCPServer instance while it
\* is running, also when start() is called a second time before the first
\* start() has finished its initialization.
C35_OneListenWhileRunning == Cardinality(Outstanding) <= 1

\* the start() calls never overlapped: every socket but the last was closed
\* by a stop() before the next listen
StartsInSequence ==
    \A k \in DOMAIN server.sockets :
        k < Len(server.sockets) => server.sockets[k] = "closed"

\* C36: over any sequence of start() and stop() calls on one instance each
\* middleware, each route and the error handler is registered on the Express
\* app at most once; start -> stop -> start does not install them again.
C36_RegisteredOnce ==
    StartsInSequence =>
        /\ server.middleware <= 1
        /\ server.routes <= 1
        /\ server.errorHandlers <= 1

\* the stop() calls that were rejected
Rejected == {i \in DOMAIN server.stops : server.stops[i].pc = "rejected"}

\* C37: when closing the server fails inside stop(), stop() rejects with
\* 'Error during shutdown: ...', isShuttingDown is reset and the handle stays
\* non-null, so that a later stop() attempts the close again; isShuttingDown
\* is not left true once stop() has settled.
C37_FailedStopCanBeRepeated ==
    /\ [](/\ Closing = {} => ~server.isShuttingDown
          /\ server.closeCalls
                = Cardinality({i \in DOMAIN server.stops : ~server.stops[i].early})
          /\ \A i \in Rejected :
                server.stops[i].error
                    = "Error during shutdown: Server is not running.")
    /\ [][/\ \A i \in Closing :
                server'.stops[i].pc = "rejected"
                => /\ ~server'.isShuttingDown
                   /\ server'.handle = server.handle
                   /\ server'.handle # 0
                   /\ server'.sockets = server.sockets
          /\ (StopStep /\ Rejected # {} /\ Closing = {} /\ server.handle # 0)
                => /\ server'.closeCalls = server.closeCalls + 1
                   /\ server'.stops[Len(server'.stops)].pc = "closing"
         ]_vars

\* listen failed; the first stop() was rejected and the second closes again
C37_Witness ==
    /\ Len(server.stops) = 2
    /\ server.stops[1].pc = "rejected"
    /\ server.stops[2].pc = "closing"
    /\ server.closeCalls = 2
    /\ server.handle # 0

\* C38: in the CLI's start command the process exits with code 0 after a
\* shutdown signal only once the close of the server has completed: a second
\* signal during the shutdown does not make it exit 0 before the stop() in
\* progress has finished.
C38_ExitAfterClose ==
    (server.cli /\ server.exit = Some(0)) => Closing = {}

====
